---- MODULE Spec2Model ----
(***************************************************************************)
(* The main-process data layer of the inventory application: the SQLite    *)
(* store (src/unnamed/part_000) and the IPC handlers that read and write   *)
(* it (stock.ts, transaction.ts, auth.ts, src/unnamed/part_001 and        *)
(* src/unnamed/part_002).                                                  *)
(*                                                                         *)
(* A table is the sequence of its rows in rowid order; every table is      *)
(* AUTOINCREMENT, so the id of a row is its index, and a deleted row keeps *)
(* its index, which no later row is given.  A handler has no await in its  *)
(* body: it runs to completion, and is one action.                         *)
(***************************************************************************)
EXTENDS Integers, Sequences, FiniteSets, TLC

\* ------------------------------------------------------------- bounds
MaxCategories == 1
MaxSuppliers == 1
MaxStockItems == 2
MaxOrders == 1
MaxTransactions == 1
MaxLineItems == 2
MaxRecords == 1
MaxLogs == 9
MaxStockLogs == 3
MaxNumbered == 3
MaxUsers == 3
MaxUserLogs == 3

\* ------------------------------------------------------------- state
VARIABLES
  db,      \* the store: the contents of the database file
  handle,  \* whether the process holds its handle on the store (let db)
  result,  \* what the last handler returned to the caller
  requests \* the status requests the UI process has issued, with their replies

vars == <<db, handle, result, requests>>

\* a NULL in an INTEGER key column; rowids start at 1, and 0 is a number
NULL == -1

\* a NULL in a TEXT column
NULL_TEXT == "NULL"

\* ------------------------------------------------------------- inputs
\* caller-supplied user ids: a seeded admin, and an id no user row has
UserIdInputs == {1, 9}
SkuInputs == {"A1", "B2"}
CategoryNameInputs == {"Office"}

\* an sku an update can carry: a text, the empty text, or null
SkuPatchInputs == {"A1", "", NULL_TEXT}
NewQuantityInputs == {0}

\* account inputs: the first seeded admin's name and a new one; that admin's
\* seed password and another
UsernameInputs == {"fagan@admin1", "ana"}
PasswordInputs == {"fagan_password1", "pw"}

\* caller and target user ids: a seeded admin, the first account created
\* after the seeds, and an id no user row has
CallerIdInputs == {1, 3, 9}

\* a category id a caller can send: a rowid, 0, or null
CategoryIdInputs == (1..MaxCategories) \cup {0, NULL}
SupplierNameInputs == {"Acme"}

\* a supplier id a caller can send: a rowid, 0, or a rowid no supplier has
SupplierIdInputs == 0..(MaxSuppliers + 1)
QuantityInputs == {1}
LineQuantityInputs == {1, 2}
TransactionTypes == {"issuance", "return", "adjustment"}
OrderStatusInputs == {"approved", "received", "cancelled"}
TransactionStatusInputs == {"approved", "cancelled"}
CreateStatusInputs == {"pending", "approved"}

\* line items a caller can send: at most MaxLineItems of them
LineItemInputs ==
  UNION { [1..n -> [stock_item_id : 1..MaxStockItems, quantity : LineQuantityInputs]]
          : n \in 0..MaxLineItems }

\* the store fails on the k-th writing statement of a call (0: on none)
FaultInputs == 0..(2 * MaxLineItems + 3)

\* ------------------------------------------------------------- bootstrap
adminUsers ==
  << [username |-> "fagan@admin1", password |-> "fagan_password1", role |-> "admin"],
     [username |-> "fagan@admin2", password |-> "fagan_password2", role |-> "admin"] >>

\* the tables of the schema
TableNames ==
  { "users", "stock_categories", "stock_items", "suppliers", "purchase_orders",
    "purchase_order_items", "transactions", "transaction_items", "activity_logs" }

\* the database file as new Database(dbPath) creates it: no table, no row
newDatabase ==
  [ schema               |-> {},
    users                |-> << >>,
    stock_categories     |-> << >>,
    stock_items          |-> << >>,
    suppliers            |-> << >>,
    purchase_orders      |-> << >>,
    purchase_order_items |-> << >>,
    transactions         |-> << >>,
    transaction_items    |-> << >>,
    activity_logs        |-> << >> ]

\* CREATE TABLE IF NOT EXISTS, for each table: a table that exists is kept
createTables(d) == [d EXCEPT !.schema = @ \cup TableNames]

\* a seed that inserts without looking for the username
RECURSIVE seedFromUnchecked(_, _)
seedFromUnchecked(d, i) ==
  IF i > Len(adminUsers) THEN d
  ELSE seedFromUnchecked([d EXCEPT !.users = Append(@,
         [username |-> adminUsers[i].username, password |-> adminUsers[i].password,
          role |-> adminUsers[i].role, is_active |-> TRUE])], i + 1)

\* adminUsers.forEach(user => { if (!existingUser) insertUser.run(user) })
RECURSIVE seedFrom(_, _)
seedFrom(d, i) ==
  IF i > Len(adminUsers) THEN d
  ELSE LET user == adminUsers[i]
           existingUser == \E k \in 1..Len(d.users) : d.users[k].username = user.username
       IN IF existingUser THEN seedFrom(d, i + 1)
          ELSE seedFrom([d EXCEPT !.users = Append(@,
                 [username |-> user.username, password |-> user.password,
                  role |-> user.role, is_active |-> TRUE])], i + 1)

seedAdminUsers(d) == seedFrom(d, 1)

initDatabase(d) == seedAdminUsers(createTables(d))

\* ------------------------------------------------------------- the store
\* A call in progress: the working store, whether a statement has thrown, and
\* how many writing statements are left before the store itself fails.
Begin(d, fault) == [db |-> d, ok |-> TRUE, fault |-> fault]

\* a statement whose failure is swallowed: nothing is written, nothing is thrown
WriteSwallows(x, allowed, d2) ==
  IF ~x.ok THEN x
  ELSE IF x.fault = 1 \/ ~allowed THEN [x EXCEPT !.fault = 0]
  ELSE [db |-> d2, ok |-> TRUE, fault |-> IF x.fault = 0 THEN 0 ELSE x.fault - 1]

\* One writing statement: it throws when the store fails on it or when a
\* constraint of the schema refuses it, and then changes nothing; nothing runs
\* after a throw.
Write(x, allowed, d2) ==
  IF ~x.ok THEN x
  ELSE IF x.fault = 1 \/ ~allowed THEN [x EXCEPT !.ok = FALSE, !.fault = 0]
  ELSE [db |-> d2, ok |-> TRUE, fault |-> IF x.fault = 0 THEN 0 ELSE x.fault - 1]

\* FOREIGN KEY (...) REFERENCES t(id): NULL or the id of a row of t
References(id, t) == id = NULL \/ id \in 1..Len(t)

\* a log statement that writes over the newest row instead of adding one
InsertLogOverwrites(x, user_id, action, entity_type, entity_id, details) ==
  Write(x, References(user_id, x.db.users),
        LET row == [user_id |-> user_id, action |-> action, entity_type |-> entity_type,
                    entity_id |-> entity_id, details |-> details]
        IN IF x.db.activity_logs = << >>
           THEN [x.db EXCEPT !.activity_logs = << row >>]
           ELSE [x.db EXCEPT !.activity_logs[Len(x.db.activity_logs)] = row])

\* INSERT INTO activity_logs (user_id, action, entity_type, entity_id, details)
InsertLog(x, user_id, action, entity_type, entity_id, details) ==
  Write(x, References(user_id, x.db.users),
        [x.db EXCEPT !.activity_logs = Append(@,
           [user_id |-> user_id, action |-> action, entity_type |-> entity_type,
            entity_id |-> entity_id, details |-> details])])

\* an UPDATE whose WHERE finds no row: the quantity stays
updateStockStmtMisses(x, delta, id) == Write(x, TRUE, x.db)

\* an UPDATE that sets current_quantity = ? instead of adding to it
updateStockStmtAssigns(x, delta, id) ==
  Write(x, TRUE,
        IF id \in 1..Len(x.db.stock_items)
        THEN [x.db EXCEPT !.stock_items[id].current_quantity = delta]
        ELSE x.db)

\* UPDATE stock_items SET current_quantity = current_quantity + ? WHERE id = ?
updateStockStmt(x, delta, id) ==
  Write(x, TRUE,
        IF id \in 1..Len(x.db.stock_items)
        THEN [x.db EXCEPT !.stock_items[id].current_quantity = @ + delta]
        ELSE x.db)

\* COMMIT
Commit(x) == Write(x, TRUE, x.db)

\* a ROLLBACK that is never issued: the writes made so far stay
RollbackSkipped(d, x) == x.db

\* ROLLBACK: the store as it was at BEGIN TRANSACTION
Rollback(d, x) == d

Failure(message) == [success |-> FALSE, message |-> message]
Success(message) == [success |-> TRUE, message |-> message]

\* the model keeps the tables within its bounds
WithinBounds(d) ==
  /\ Len(d.stock_categories) <= MaxCategories
  /\ Len(d.suppliers) <= MaxSuppliers
  /\ Len(d.stock_items) <= MaxStockItems
  /\ Len(d.purchase_orders) <= MaxOrders
  /\ Len(d.transactions) <= MaxTransactions
  /\ Len(d.purchase_orders) + Len(d.transactions) <= MaxRecords
  /\ Len(d.activity_logs) <= MaxLogs

\* room for one more order or transaction
HasRoom(d) == Len(d.purchase_orders) + Len(d.transactions) < MaxRecords

\* a handler's outcome becomes the next state
Return(out) ==
  /\ WithinBounds(out.db)
  /\ db' = out.db
  /\ handle' = TRUE
  /\ UNCHANGED requests
  /\ result' = out.result

\* getDatabase(): the store a handler works on; the first call of a process
\* runs initDatabase on the file, a later call finds the handle set
getDatabase == IF ~handle THEN initDatabase(db) ELSE db

\* the process after its first access to a new database file
Init ==
  /\ db = initDatabase(newDatabase)
  /\ handle = TRUE
  /\ requests = << >>
  /\ result = Success("")

\* ------------------------------------------------------------- stock.ts
\* SELECT id FROM stock_categories WHERE id = ?
categoryExists(d, id) ==
  id \in 1..Len(d.stock_categories) /\ ~d.stock_categories[id].deleted

\* SELECT id FROM stock_categories WHERE name = ? AND id != ?
categoryNameTaken(d, name, id) ==
  \E k \in 1..Len(d.stock_categories) :
    k # id /\ ~d.stock_categories[k].deleted /\ d.stock_categories[k].name = name

\* stock:createCategory (no transaction: each statement commits by itself)
createCategory(d, userId, category, fault) ==
  LET existingCategory == categoryNameTaken(d, category.name, NULL)
      x1 == Write(Begin(d, fault), TRUE,
                  [d EXCEPT !.stock_categories =
                     Append(@, [name |-> category.name, deleted |-> FALSE])])
      x2 == InsertLog(x1, userId, "create", "stock_category", Len(x1.db.stock_categories),
                      "Created category: " \o category.name)
  IN IF existingCategory
     THEN [db |-> d, result |-> Failure("Category name already exists")]
     ELSE IF x2.ok
     THEN [db |-> x2.db, result |-> Success("Category created successfully")]
     ELSE [db |-> x2.db, result |-> Failure("An error occurred while creating category")]

StockCreateCategory ==
  \E userId \in UserIdInputs, name \in CategoryNameInputs, fault \in 0..2 :
    Return(createCategory(getDatabase, userId, [name |-> name], fault))

\* stock:updateCategory (no transaction)
updateCategory(d, userId, categoryId, category, fault) ==
  LET existingCategory == categoryExists(d, categoryId)
      nameCheck == category.name # "" /\ categoryNameTaken(d, category.name, categoryId)
      x1 == Write(Begin(d, fault), ~categoryNameTaken(d, category.name, categoryId),
                  [d EXCEPT !.stock_categories[categoryId].name = category.name])
      x2 == InsertLog(x1, userId, "update", "stock_category", categoryId,
                      "Updated category: " \o category.name)
  IN IF ~existingCategory
     THEN [db |-> d, result |-> Failure("Category not found")]
     ELSE IF nameCheck
     THEN [db |-> d, result |-> Failure("Category name already exists")]
     ELSE IF x2.ok
     THEN [db |-> x2.db, result |-> Success("Category updated successfully")]
     ELSE [db |-> x2.db, result |-> Failure("An error occurred while updating category")]

StockUpdateCategory ==
  \E userId \in UserIdInputs, categoryId \in 1..MaxCategories,
     name \in CategoryNameInputs, fault \in 0..2 :
    Return(updateCategory(getDatabase, userId, categoryId, [name |-> name], fault))

\* a count that is always zero
itemCountNone(d, categoryId) == 0

\* SELECT COUNT(*) as count FROM stock_items WHERE category_id = ?
itemCount(d, categoryId) ==
  Cardinality({k \in 1..Len(d.stock_items) : d.stock_items[k].category_id = categoryId})

\* the row a DELETE leaves behind: its rowid is never given again
deletedCategory == [name |-> "", deleted |-> TRUE]

\* stock:deleteCategory (no transaction); the DELETE is refused by
\* FOREIGN KEY (category_id) REFERENCES stock_categories(id) while an item
\* references the row
deleteCategory(d, userId, categoryId, fault) ==
  LET existingCategory == categoryExists(d, categoryId)
      x1 == Write(Begin(d, fault),
                  \A k \in 1..Len(d.stock_items) : d.stock_items[k].category_id # categoryId,
                  [d EXCEPT !.stock_categories[categoryId] = deletedCategory])
      x2 == InsertLog(x1, userId, "delete", "stock_category", categoryId,
                      "Deleted category: " \o d.stock_categories[categoryId].name)
  IN IF ~existingCategory
     THEN [db |-> d, result |-> Failure("Category not found")]
     ELSE IF itemCount(d, categoryId) > 0
     THEN [db |-> d, result |-> Failure("Cannot delete category with existing stock items")]
     ELSE IF x2.ok
     THEN [db |-> x2.db, result |-> Success("Category deleted successfully")]
     ELSE [db |-> x2.db, result |-> Failure("An error occurred while deleting category")]

StockDeleteCategory ==
  \E userId \in UserIdInputs, categoryId \in 1..MaxCategories, fault \in 0..2 :
    Return(deleteCategory(getDatabase, userId, categoryId, fault))

\* a lookup that never finds the SKU
existingSkuNever(d, sku) == FALSE

\* SELECT id FROM stock_items WHERE sku = ?  (sku = NULL is true of no row)
existingSku(d, sku) ==
  /\ sku # NULL_TEXT
  /\ \E k \in 1..Len(d.stock_items) : d.stock_items[k].sku = sku

\* sku TEXT UNIQUE: no row but row id holds the sku, NULLs apart
skuUnique(d, sku, id) ==
  \/ sku = NULL_TEXT
  \/ \A k \in 1..Len(d.stock_items) : k # id => d.stock_items[k].sku # sku

\* FOREIGN KEY (category_id) REFERENCES stock_categories(id)
categoryReference(d, category_id) == category_id = NULL \/ categoryExists(d, category_id)

\* `${...sku}` in a log detail
skuText(sku) == IF sku = NULL_TEXT THEN "null" ELSE sku

\* stock:createItem (no transaction either)
createItem(d, userId, item, fault) ==
  LET categoryCheck == categoryExists(d, item.category_id)
      x1 == Write(Begin(d, fault),
                  skuUnique(d, item.sku, NULL) /\ categoryReference(d, item.category_id),
                  [d EXCEPT !.stock_items = Append(@,
                     [category_id |-> item.category_id, sku |-> item.sku,
                      current_quantity |-> item.current_quantity])])
      x2 == InsertLog(x1, userId, "create", "stock_item", Len(x1.db.stock_items),
                      "Created stock item: " \o skuText(item.sku))
  IN IF existingSku(d, item.sku)
     THEN [db |-> d, result |-> Failure("SKU already exists")]
     ELSE IF ~categoryCheck
     THEN [db |-> d, result |-> Failure("Category not found")]
     ELSE IF x2.ok
     THEN [db |-> x2.db, result |-> Success("Stock item created successfully")]
     ELSE [db |-> x2.db, result |-> Failure("An error occurred while creating stock item")]

StockCreateItem ==
  \E userId \in UserIdInputs, category_id \in CategoryIdInputs, sku \in SkuInputs,
     current_quantity \in QuantityInputs, fault \in 0..2 :
    Return(createItem(getDatabase, userId,
                      [category_id |-> category_id, sku |-> sku,
                       current_quantity |-> current_quantity], fault))

\* the columns of stock_items an update can name, in the order the handler
\* tests them (the model keeps category_id, sku and current_quantity)
itemFields == << "category_id", "sku", "current_quantity" >>

\* Object.keys(item).filter(key => key !== 'id').join(', '), the keys taken in
\* the order of itemFields
RECURSIVE updatedFields(_, _)
updatedFields(item, i) ==
  IF i > Len(itemFields) THEN ""
  ELSE LET rest == updatedFields(item, i + 1)
       IN IF itemFields[i] \notin DOMAIN item THEN rest
          ELSE IF rest = "" THEN itemFields[i]
          ELSE itemFields[i] \o ", " \o rest

\* if (item.category_id): given, and neither 0 nor null
categoryGiven(item) ==
  "category_id" \in DOMAIN item /\ item.category_id # 0 /\ item.category_id # NULL

\* if (item.sku && item.sku !== existingItem.sku): given, neither '' nor null
skuChanged(item, existingItem) ==
  /\ "sku" \in DOMAIN item
  /\ item.sku # "" /\ item.sku # NULL_TEXT
  /\ item.sku # existingItem.sku

\* stock:updateItem (no transaction).  item is a Partial<StockItem>: a record
\* of the fields the caller gives; a field that is !== undefined is written.
updateItem(d, userId, itemId, item, fault) ==
  IF itemId \notin 1..Len(d.stock_items)
  THEN [db |-> d, result |-> Failure("Stock item not found")]
  ELSE
  LET existingItem == d.stock_items[itemId]
      skuCheck == \E k \in 1..Len(d.stock_items) :
                    k # itemId /\ d.stock_items[k].sku = item.sku
      updated == [f \in DOMAIN existingItem |->
                    IF f \in DOMAIN item THEN item[f] ELSE existingItem[f]]
      x1 == Write(Begin(d, fault),
                  /\ skuUnique(d, updated.sku, itemId)
                  /\ categoryReference(d, updated.category_id),
                  [d EXCEPT !.stock_items[itemId] = updated])
      x2 == InsertLog(x1, userId, "update", "stock_item", itemId,
                      "Updated stock item fields (" \o updatedFields(item, 1) \o "): "
                        \o skuText(existingItem.sku))
  IN IF skuChanged(item, existingItem) /\ skuCheck
     THEN [db |-> d, result |-> Failure("SKU already exists")]
     ELSE IF categoryGiven(item) /\ ~categoryExists(d, item.category_id)
     THEN [db |-> d, result |-> Failure("Category not found")]
     ELSE IF x2.ok
     THEN [db |-> x2.db, result |-> Success("Stock item updated successfully")]
     ELSE [db |-> x2.db, result |-> Failure("An error occurred while updating stock item")]

\* the Partial<StockItem> objects a caller can send
ItemPatchInputs ==
  {<< >>}
  \cup { [category_id |-> c] : c \in CategoryIdInputs }
  \cup { [sku |-> k] : k \in SkuPatchInputs }
  \cup { [current_quantity |-> q] : q \in QuantityInputs }

StockUpdateItem ==
  \E userId \in UserIdInputs, itemId \in 1..MaxStockItems, item \in ItemPatchInputs,
     fault \in 0..2 :
    Return(updateItem(getDatabase, userId, itemId, item, fault))

\* `${quantityChange >= 0 ? '+' : ''}${quantityChange}`
signed(quantityChange) ==
  (IF quantityChange >= 0 THEN "+" ELSE "") \o ToString(quantityChange)

\* stock:updateQuantity (no transaction)
updateQuantity(d, userId, itemId, newQuantity, reason, fault) ==
  IF itemId \notin 1..Len(d.stock_items)
  THEN [db |-> d, result |-> Failure("Stock item not found")]
  ELSE
  LET existingItem == d.stock_items[itemId]
      quantityChange == newQuantity - existingItem.current_quantity
      x1 == Write(Begin(d, fault), TRUE,
                  [d EXCEPT !.stock_items[itemId].current_quantity = newQuantity])
      x2 == InsertLog(x1, userId, "update", "stock_item", itemId,
                      "Updated quantity from " \o ToString(existingItem.current_quantity)
                        \o " to " \o ToString(newQuantity)
                        \o " (" \o signed(quantityChange) \o "). Reason: " \o reason)
  IN IF x2.ok
     THEN [db |-> x2.db, result |-> Success("Stock quantity updated successfully")]
     ELSE [db |-> x2.db, result |-> Failure("An error occurred while updating stock quantity")]

StockUpdateQuantity ==
  \E userId \in UserIdInputs, itemId \in 1..MaxStockItems,
     newQuantity \in NewQuantityInputs, fault \in 0..2 :
    Return(updateQuantity(getDatabase, userId, itemId, newQuantity, "count", fault))

\* ------------------------------------------------------------- src/unnamed/part_002
\* supply:createSupplier (no transaction)
createSupplier(d, userId, supplier, fault) ==
  LET x1 == Write(Begin(d, fault), TRUE,
                  [d EXCEPT !.suppliers = Append(@, [name |-> supplier.name])])
      x2 == InsertLog(x1, userId, "create", "supplier", Len(x1.db.suppliers),
                      "Created supplier: " \o supplier.name)
  IN IF x2.ok
     THEN [db |-> x2.db, result |-> Success("Supplier created successfully")]
     ELSE [db |-> x2.db, result |-> Failure("An error occurred while creating supplier")]

SupplyCreateSupplier ==
  \E userId \in UserIdInputs, name \in SupplierNameInputs, fault \in 0..2 :
    Return(createSupplier(getDatabase, userId, [name |-> name], fault))

\* supply:updateSupplier with the name supplied (no transaction)
updateSupplier(d, userId, supplierId, supplier, fault) ==
  IF supplierId \notin 1..Len(d.suppliers) THEN
    [db |-> d, result |-> Failure("Supplier not found")]
  ELSE
    LET existingSupplier == d.suppliers[supplierId]
        x1 == Write(Begin(d, fault), TRUE,
                    [d EXCEPT !.suppliers[supplierId].name = supplier.name])
        x2 == InsertLog(x1, userId, "update", "supplier", supplierId,
                        "Updated supplier fields (name): " \o existingSupplier.name)
    IN IF x2.ok
       THEN [db |-> x2.db, result |-> Success("Supplier updated successfully")]
       ELSE [db |-> x2.db, result |-> Failure("An error occurred while updating supplier")]

\* what new Date() gives the prefix of a generated number
YearMonth == "2611"

padStart4(n) ==
  IF n < 10 THEN "000" \o ToString(n)
  ELSE IF n < 100 THEN "00" \o ToString(n)
  ELSE IF n < 1000 THEN "0" \o ToString(n)
  ELSE ToString(n)

OrderNumberInputs == { "PO-" \o YearMonth \o "-" \o padStart4(n) : n \in 1..MaxOrders }

\* items.forEach(item => insertItem.run(orderId, ...)) of createPurchaseOrder
RECURSIVE insertOrderItems(_, _, _, _)
insertOrderItems(x, orderId, items, i) ==
  IF i > Len(items) THEN x
  ELSE insertOrderItems(
         Write(x, /\ References(orderId, x.db.purchase_orders)
                  /\ References(items[i].stock_item_id, x.db.stock_items),
               [x.db EXCEPT !.purchase_order_items = Append(@,
                  [purchase_order_id |-> orderId,
                   stock_item_id |-> items[i].stock_item_id,
                   quantity |-> items[i].quantity])]),
         orderId, items, i + 1)

\* a purchase_orders table without the foreign key on supplier_id
purchaseOrderAllowedAnySupplier(d, userId, order) ==
  /\ \A k \in 1..Len(d.purchase_orders) :
       d.purchase_orders[k].order_number # order.order_number
  /\ References(userId, d.users)

\* purchase_orders: order_number TEXT UNIQUE, FOREIGN KEY (supplier_id),
\* FOREIGN KEY (created_by)
purchaseOrderAllowed(d, userId, order) ==
  /\ \A k \in 1..Len(d.purchase_orders) :
       d.purchase_orders[k].order_number # order.order_number
  /\ References(order.supplier_id, d.suppliers)
  /\ References(userId, d.users)

\* an INSERT that binds the status the caller supplied
orderInitialStatusFromCaller(order) == order.status

\* 'pending', // always start as pending
orderInitialStatus(order) == "pending"

\* supply:createPurchaseOrder
createPurchaseOrder(d, userId, order, items, fault) ==
  LET x0 == Begin(d, fault)
      x1 == Write(x0, purchaseOrderAllowed(d, userId, order),
                  [d EXCEPT !.purchase_orders = Append(@,
                     [supplier_id |-> order.supplier_id,
                      order_number |-> order.order_number,
                      status |-> orderInitialStatus(order),
                      created_by |-> userId,
                      approved_by |-> NULL])])
      orderId == Len(x1.db.purchase_orders)
      x2 == insertOrderItems(x1, orderId, items, 1)
      x3 == InsertLog(x2, userId, "create", "purchase_order", orderId,
                      "Created purchase order: " \o order.order_number)
      x4 == Commit(x3)
  IN IF x4.ok
     THEN [db |-> x4.db, result |-> Success("Purchase order created successfully")]
     ELSE [db |-> Rollback(d, x4),
           result |-> Failure("An error occurred while creating purchase order")]

\* A call whose first INSERT is refused never reads its line items: one list
\* stands for all of them.  A call that would store a record needs room for it.
SupplyCreatePurchaseOrder ==
  \E userId \in UserIdInputs, supplier_id \in SupplierIdInputs,
     order_number \in OrderNumberInputs, status \in CreateStatusInputs :
    LET order == [supplier_id |-> supplier_id, order_number |-> order_number,
                  status |-> status]
        refused == ~purchaseOrderAllowed(getDatabase, userId, order)
    IN /\ refused \/ HasRoom(getDatabase)
       /\ \E items \in (IF refused THEN {<< >>} ELSE LineItemInputs),
             fault \in (IF refused THEN {0} ELSE FaultInputs) :
            Return(createPurchaseOrder(getDatabase, userId, order, items, fault))

\* items.forEach(item => { updateStockStmt.run(...); log }) of updateOrderStatus
RECURSIVE receiveOrderItems(_, _, _, _, _)
receiveOrderItems(x, userId, order, items, i) ==
  IF i > Len(items) THEN x
  ELSE LET item == items[i]
           x1 == updateStockStmt(x, item.quantity, item.stock_item_id)
           x2 == InsertLog(x1, userId, "update", "stock_item", item.stock_item_id,
                           "Updated quantity (+" \o ToString(item.quantity)
                             \o ") from received purchase order: " \o order.order_number)
       IN receiveOrderItems(x2, userId, order, items, i + 1)

\* a guard that lets every order through
orderIsFinalNever(order) == FALSE

\* a guard that forgets the received orders
orderIsFinalCancelledOnly(order) == order.status = "cancelled"

\* prevent changing status if already received or cancelled
orderIsFinal(order) == order.status = "received" \/ order.status = "cancelled"

\* SELECT ... FROM purchase_order_items poi WHERE poi.purchase_order_id = ?
orderItems(d, orderId) ==
  SelectSeq(d.purchase_order_items, LAMBDA poi : poi.purchase_order_id = orderId)

\* a test that looks at the flag only, whatever the status asked for
orderAppliesStockWhenFlagged(status, updateStock) == updateStock

\* if (status === 'received' && updateStock)
orderAppliesStock(status, updateStock) == status = "received" /\ updateStock

\* supply:updateOrderStatus
updateOrderStatus(d, userId, orderId, status, updateStock, fault) ==
  IF orderId \notin 1..Len(d.purchase_orders)
  THEN [db |-> Rollback(d, Begin(d, fault)), result |-> Failure("Purchase order not found")]
  ELSE
  LET order == d.purchase_orders[orderId]
      x0 == Begin(d, fault)
      x1 == IF status = "approved"
            THEN Write(x0, References(userId, d.users),
                       [d EXCEPT !.purchase_orders[orderId].status = status,
                                 !.purchase_orders[orderId].approved_by = userId])
            ELSE Write(x0, TRUE, [d EXCEPT !.purchase_orders[orderId].status = status])
      items == orderItems(x1.db, orderId)
      x2 == IF orderAppliesStock(status, updateStock)
            THEN receiveOrderItems(x1, userId, order, items, 1)
            ELSE x1
      x3 == InsertLog(x2, userId, "update", "purchase_order", orderId,
                      "Updated purchase order status to " \o status \o ": "
                        \o order.order_number)
      x4 == Commit(x3)
  IN IF orderIsFinal(order)
     THEN [db |-> Rollback(d, x0),
           result |-> Failure("Cannot change status of " \o order.status \o " purchase order")]
     ELSE IF x4.ok
     THEN [db |-> x4.db,
           result |-> Success("Purchase order "
                        \o (IF status = "approved" THEN "approved"
                            ELSE IF status = "received" THEN "marked as received"
                            ELSE "cancelled")
                        \o " successfully")]
     ELSE [db |-> Rollback(d, x4),
           result |-> Failure("An error occurred while updating purchase order status")]

SupplyUpdateOrderStatus ==
  \E userId \in UserIdInputs, orderId \in 1..MaxOrders, status \in OrderStatusInputs,
     updateStock \in BOOLEAN, fault \in FaultInputs :
    Return(updateOrderStatus(getDatabase, userId, orderId, status, updateStock, fault))

\* ------------------------------------------------------------- transaction.ts
\* the prefix transaction:generateReferenceNumber gives a type
typePrefix(type) ==
  CASE type = "issuance" -> "ISS-" \o YearMonth \o "-"
    [] type = "return" -> "RET-" \o YearMonth \o "-"
    [] type = "adjustment" -> "ADJ-" \o YearMonth \o "-"
    [] OTHER -> "TRX-" \o YearMonth \o "-"

\* the numbers a reference number of the model can end in
SequenceNumbers == 0..(MaxNumbered + 1)

\* a LIKE that takes every reference number, whatever its prefix
hasPrefixAny(reference_number, prefix) == TRUE

\* reference_number LIKE `${prefix}%`
hasPrefix(reference_number, prefix) ==
  \E n \in SequenceNumbers : reference_number = prefix \o padStart4(n)

\* parseInt(reference_number.match(/\d+$/)[0], 10): the number the trailing
\* digits spell
trailingNumber(reference_number) ==
  CHOOSE n \in SequenceNumbers :
    \E type \in TransactionTypes : reference_number = typePrefix(type) \o padStart4(n)

\* transaction:generateReferenceNumber (reads only)
generateReferenceNumber(d, type) ==
  LET prefix == typePrefix(type)
      matching == {k \in 1..Len(d.transactions) :
                     hasPrefix(d.transactions[k].reference_number, prefix)}
      \* ORDER BY id DESC LIMIT 1
      latestTransaction == d.transactions[CHOOSE k \in matching : \A j \in matching : j <= k]
      sequence == IF matching = {} THEN 1
                  ELSE trailingNumber(latestTransaction.reference_number) + 1
  IN [success |-> TRUE, referenceNumber |-> prefix \o padStart4(sequence)]

TransactionGenerateReferenceNumber ==
  \E type \in TransactionTypes :
    /\ result' = generateReferenceNumber(getDatabase, type)
    /\ db' = getDatabase
    /\ handle' = TRUE
    /\ UNCHANGED requests

\* the prefix supply:generateOrderNumber gives: `PO-${year}${month}-`
orderPrefix == "PO-" \o YearMonth \o "-"

\* parseInt(order_number.match(/\d+$/)[0], 10)
trailingOrderNumber(order_number) ==
  CHOOSE n \in SequenceNumbers : order_number = orderPrefix \o padStart4(n)

\* supply:generateOrderNumber (src/unnamed/part_002; reads only)
generateOrderNumber(d) ==
  LET prefix == orderPrefix
      matching == {k \in 1..Len(d.purchase_orders) :
                     hasPrefix(d.purchase_orders[k].order_number, prefix)}
      \* ORDER BY id DESC LIMIT 1
      latestOrder == d.purchase_orders[CHOOSE k \in matching : \A j \in matching : j <= k]
      sequence == IF matching = {} THEN 1
                  ELSE trailingOrderNumber(latestOrder.order_number) + 1
  IN [success |-> TRUE, orderNumber |-> prefix \o padStart4(sequence)]

SupplyGenerateOrderNumber ==
  /\ result' = generateOrderNumber(getDatabase)
  /\ db' = getDatabase
  /\ handle' = TRUE
  /\ UNCHANGED requests

ReferenceNumberInputs(type) == { typePrefix(type) \o padStart4(n) : n \in 1..MaxTransactions }

\* items.forEach(item => insertItem.run(transactionId, ...)) of createTransaction
RECURSIVE insertTransactionItems(_, _, _, _)
insertTransactionItems(x, transactionId, items, i) ==
  IF i > Len(items) THEN x
  ELSE insertTransactionItems(
         Write(x, /\ References(transactionId, x.db.transactions)
                  /\ References(items[i].stock_item_id, x.db.stock_items),
               [x.db EXCEPT !.transaction_items = Append(@,
                  [transaction_id |-> transactionId,
                   stock_item_id |-> items[i].stock_item_id,
                   quantity |-> items[i].quantity])]),
         transactionId, items, i + 1)

\* transactions: reference_number TEXT UNIQUE, FOREIGN KEY (created_by)
transactionAllowed(d, userId, transaction) ==
  /\ \A k \in 1..Len(d.transactions) :
       d.transactions[k].reference_number # transaction.reference_number
  /\ References(userId, d.users)

\* 'pending', // always start as pending
transactionInitialStatus(transaction) == "pending"

\* transaction:createTransaction
createTransaction(d, userId, transaction, items, fault) ==
  LET x0 == Begin(d, fault)
      x1 == Write(x0, transactionAllowed(d, userId, transaction),
                  [d EXCEPT !.transactions = Append(@,
                     [transaction_type |-> transaction.transaction_type,
                      reference_number |-> transaction.reference_number,
                      created_by |-> userId,
                      approved_by |-> NULL,
                      status |-> transactionInitialStatus(transaction)])])
      transactionId == Len(x1.db.transactions)
      x2 == insertTransactionItems(x1, transactionId, items, 1)
      x3 == InsertLog(x2, userId, "create", "transaction", transactionId,
                      "Created " \o transaction.transaction_type \o " transaction: "
                        \o transaction.reference_number)
      x4 == Commit(x3)
  IN IF x4.ok
     THEN [db |-> x4.db, result |-> Success("Transaction created successfully")]
     ELSE [db |-> Rollback(d, x4),
           result |-> Failure("An error occurred while creating transaction")]

TransactionCreateTransaction ==
  \E userId \in UserIdInputs, type \in TransactionTypes, status \in CreateStatusInputs :
    \E reference_number \in ReferenceNumberInputs(type) :
      LET transaction == [transaction_type |-> type,
                          reference_number |-> reference_number, status |-> status]
          refused == ~transactionAllowed(getDatabase, userId, transaction)
      IN /\ refused \/ HasRoom(getDatabase)
         /\ \E items \in (IF refused THEN {<< >>} ELSE LineItemInputs),
               fault \in (IF refused THEN {0} ELSE FaultInputs) :
              Return(createTransaction(getDatabase, userId, transaction, items, fault))

\* a guard that forgets the approved transactions
transactionIsFinalCancelledOnly(transaction) == transaction.status = "cancelled"

\* a guard that forgets the cancelled transactions
transactionIsFinalApprovedOnly(transaction) == transaction.status = "approved"

\* prevent changing status if already approved or cancelled
transactionIsFinal(transaction) ==
  transaction.status = "approved" \/ transaction.status = "cancelled"

\* SELECT ... FROM transaction_items ti WHERE ti.transaction_id = ?
transactionItems(d, transactionId) ==
  SelectSeq(d.transaction_items, LAMBDA ti : ti.transaction_id = transactionId)

\* a factor that forgets the issuance case
stockFactorAlwaysAdds(transaction) == 1

\* const factor = transaction.transaction_type === 'issuance' ? -1 : 1
stockFactor(transaction) == IF transaction.transaction_type = "issuance" THEN -1 ELSE 1

\* a check that only looks for the stock item, not at its quantity
insufficientStockMissingOnly(d, transaction, item) ==
  /\ transaction.transaction_type = "issuance"
  /\ item.stock_item_id \notin 1..Len(d.stock_items)

\* if issuance, check available quantity:
\* !stockItem || stockItem.current_quantity < item.quantity
insufficientStock(d, transaction, item) ==
  /\ transaction.transaction_type = "issuance"
  /\ \/ item.stock_item_id \notin 1..Len(d.stock_items)
     \/ d.stock_items[item.stock_item_id].current_quantity < item.quantity

\* for (const item of items) { check; updateStockStmt.run(...); log } of updateStatus.
\* returned: the loop left the handler at the insufficient-stock return, for item.
RECURSIVE approveItems(_, _, _, _, _, _)
approveItems(x, userId, transaction, status, items, i) ==
  IF i > Len(items) \/ ~x.ok THEN [x |-> x, returned |-> FALSE, item |-> NULL]
  ELSE LET item == items[i]
           factor == stockFactor(transaction)
           insufficient == insufficientStock(x.db, transaction, item)
           x1 == updateStockStmt(x, item.quantity * factor, item.stock_item_id)
           x2 == InsertLog(x1, userId, "update", "stock_item", item.stock_item_id,
                           "Updated quantity (" \o (IF factor >= 0 THEN "+" ELSE "")
                             \o ToString(item.quantity * factor) \o ") from " \o status
                             \o " " \o transaction.transaction_type \o " transaction: "
                             \o transaction.reference_number)
       IN IF insufficient
          THEN [x |-> x, returned |-> TRUE, item |-> item.stock_item_id]
          ELSE approveItems(x2, userId, transaction, status, items, i + 1)

\* transaction:updateStatus
updateStatus(d, userId, transactionId, status, updateStock, fault) ==
  IF transactionId \notin 1..Len(d.transactions)
  THEN [db |-> Rollback(d, Begin(d, fault)), result |-> Failure("Transaction not found")]
  ELSE
  LET transaction == d.transactions[transactionId]
      x0 == Begin(d, fault)
      x1 == IF status = "approved"
            THEN Write(x0, References(userId, d.users),
                       [d EXCEPT !.transactions[transactionId].status = status,
                                 !.transactions[transactionId].approved_by = userId])
            ELSE Write(x0, TRUE, [d EXCEPT !.transactions[transactionId].status = status])
      items == transactionItems(x1.db, transactionId)
      loop == IF status = "approved" /\ updateStock
              THEN approveItems(x1, userId, transaction, status, items, 1)
              ELSE [x |-> x1, returned |-> FALSE, item |-> NULL]
      x3 == InsertLog(loop.x, userId, "update", "transaction", transactionId,
                      "Updated " \o transaction.transaction_type
                        \o " transaction status to " \o status \o ": "
                        \o transaction.reference_number)
      x4 == Commit(x3)
  IN IF transactionIsFinal(transaction)
     THEN [db |-> Rollback(d, x0),
           result |-> Failure("Cannot change status of " \o transaction.status
                                \o " transaction")]
     ELSE IF x1.ok /\ loop.returned
     THEN [db |-> Rollback(d, loop.x),
           result |-> Failure("Insufficient stock quantity for item ID "
                                \o ToString(loop.item))]
     ELSE IF x4.ok
     THEN [db |-> x4.db,
           result |-> Success("Transaction "
                        \o (IF status = "approved" THEN "approved" ELSE "cancelled")
                        \o " successfully")]
     ELSE [db |-> Rollback(d, x4),
           result |-> Failure("An error occurred while updating transaction status")]

TransactionUpdateStatus ==
  \E userId \in UserIdInputs, transactionId \in 1..MaxTransactions,
     status \in TransactionStatusInputs, updateStock \in BOOLEAN, fault \in FaultInputs :
    Return(updateStatus(getDatabase, userId, transactionId, status, updateStock, fault))

\* ------------------------------------------------------------- auth.ts
\* createHash('sha256').update(password).digest('hex'): a text that no
\* password of the model is, and that differs for different passwords
hashPassword(password) == "sha256(" \o password \o ")"

\* a match that does not look at the active flag
credentialsMatchInactiveToo(user, username, hashedPassword) ==
  user.username = username /\ user.password = hashedPassword

\* WHERE username = ? AND password = ? AND is_active = 1
credentialsMatch(user, username, hashedPassword) ==
  user.username = username /\ user.password = hashedPassword /\ user.is_active

\* auth:login
login(d, username, password, fault) ==
  LET hashedPassword == hashPassword(password)
      found == {k \in 1..Len(d.users) :
                  credentialsMatch(d.users[k], username, hashedPassword)}
      id == CHOOSE k \in found : TRUE
      x1 == InsertLog(Begin(d, fault), id, "login", "user", id, "User logged in")
  IN IF found = {}
     THEN [db |-> d, result |-> Failure("Invalid credentials or account is inactive")]
     ELSE IF x1.ok
     THEN [db |-> x1.db,
           result |-> [success |-> TRUE,
                       user |-> [id |-> id, username |-> d.users[id].username,
                                 role |-> d.users[id].role]]]
     ELSE [db |-> x1.db, result |-> Failure("An error occurred during login")]

AuthLogin ==
  \E username \in UsernameInputs, password \in PasswordInputs, fault \in 0..1 :
    Return(login(getDatabase, username, password, fault))

\* auth:changePassword (no transaction)
changePassword(d, userId, currentPassword, newPassword, fault) ==
  LET user == /\ userId \in 1..Len(d.users)
              /\ d.users[userId].password = hashPassword(currentPassword)
      x1 == Write(Begin(d, fault), TRUE,
                  [d EXCEPT !.users[userId].password = hashPassword(newPassword)])
      x2 == InsertLog(x1, userId, "update", "user", userId, "Password changed")
  IN IF ~user
     THEN [db |-> d, result |-> Failure("Current password is incorrect")]
     ELSE IF x2.ok
     THEN [db |-> x2.db, result |-> Success("Password updated successfully")]
     ELSE [db |-> x2.db, result |-> Failure("An error occurred while changing password")]

AuthChangePassword ==
  \E userId \in CallerIdInputs, currentPassword \in PasswordInputs,
     newPassword \in PasswordInputs, fault \in 0..2 :
    Return(changePassword(getDatabase, userId, currentPassword, newPassword, fault))

\* ------------------------------------------------------------- src/unnamed/part_001
\* a check that takes every stored user for an admin
adminCheckAnyUser(d, adminId) == adminId \in 1..Len(d.users)

\* SELECT role FROM users WHERE id = ? AND role = 'admin'
adminCheck(d, adminId) ==
  adminId \in 1..Len(d.users) /\ d.users[adminId].role = "admin"

\* a lookup that takes a user of any role for a secretary
secretaryExistsAnyRole(d, secretaryId) == secretaryId \in 1..Len(d.users)

\* SELECT id FROM users WHERE id = ? AND role = 'secretary'
secretaryExists(d, secretaryId) ==
  secretaryId \in 1..Len(d.users) /\ d.users[secretaryId].role = "secretary"

\* users:getSecretaries (reads only); the rows as a set, their order apart
getSecretaries(d, adminId) ==
  IF ~adminCheck(d, adminId)
  THEN [db |-> d, result |-> Failure("Unauthorized access")]
  ELSE [db |-> d,
        result |-> [success |-> TRUE,
                    secretaries |->
                      { [id |-> k, username |-> d.users[k].username,
                         is_active |-> d.users[k].is_active]
                        : k \in {j \in 1..Len(d.users) : d.users[j].role = "secretary"} }]]

UsersGetSecretaries ==
  \E adminId \in CallerIdInputs : Return(getSecretaries(getDatabase, adminId))

\* const hashedPassword = hashPassword(userData.password)
storedPassword(password) == hashPassword(password)

\* users:createSecretary (no transaction)
createSecretary(d, adminId, userData, fault) ==
  LET existingUser == \E k \in 1..Len(d.users) : d.users[k].username = userData.username
      x1 == Write(Begin(d, fault), TRUE,
                  [d EXCEPT !.users = Append(@,
                     [username |-> userData.username,
                      password |-> storedPassword(userData.password),
                      role |-> "secretary", is_active |-> userData.is_active])])
      x2 == InsertLog(x1, adminId, "create", "user", Len(x1.db.users),
                      "Created secretary account")
  IN IF ~adminCheck(d, adminId)
     THEN [db |-> d, result |-> Failure("Unauthorized access")]
     ELSE IF existingUser
     THEN [db |-> d, result |-> Failure("Username already exists")]
     ELSE IF x2.ok
     THEN [db |-> x2.db, result |-> Success("Secretary account created successfully")]
     ELSE [db |-> x2.db,
           result |-> Failure("An error occurred while creating secretary account")]

UsersCreateSecretary ==
  \E adminId \in CallerIdInputs, username \in UsernameInputs, password \in PasswordInputs,
     is_active \in BOOLEAN, fault \in 0..2 :
    Return(createSecretary(getDatabase, adminId,
                           [username |-> username, password |-> password,
                            is_active |-> is_active], fault))

\* users:updateSecretary (no transaction)
updateSecretary(d, adminId, secretaryId, isActive, fault) ==
  LET x1 == Write(Begin(d, fault), TRUE,
                  [d EXCEPT !.users[secretaryId].is_active = isActive])
      x2 == InsertLog(x1, adminId, "update", "user", secretaryId,
                      (IF isActive THEN "Activated" ELSE "Deactivated")
                        \o " secretary account")
  IN IF ~adminCheck(d, adminId)
     THEN [db |-> d, result |-> Failure("Unauthorized access")]
     ELSE IF ~secretaryExists(d, secretaryId)
     THEN [db |-> d, result |-> Failure("Secretary account not found")]
     ELSE IF x2.ok
     THEN [db |-> x2.db,
           result |-> Success("Secretary account "
                        \o (IF isActive THEN "activated" ELSE "deactivated")
                        \o " successfully")]
     ELSE [db |-> x2.db,
           result |-> Failure("An error occurred while updating secretary account")]

UsersUpdateSecretary ==
  \E adminId \in CallerIdInputs, secretaryId \in CallerIdInputs, isActive \in BOOLEAN,
     fault \in 0..2 :
    Return(updateSecretary(getDatabase, adminId, secretaryId, isActive, fault))

\* users:resetSecretaryPassword (no transaction)
resetSecretaryPassword(d, adminId, secretaryId, newPassword, fault) ==
  LET x1 == Write(Begin(d, fault), TRUE,
                  [d EXCEPT !.users[secretaryId].password = hashPassword(newPassword)])
      x2 == InsertLog(x1, adminId, "update", "user", secretaryId,
                      "Reset secretary password")
  IN IF ~adminCheck(d, adminId)
     THEN [db |-> d, result |-> Failure("Unauthorized access")]
     ELSE IF ~secretaryExists(d, secretaryId)
     THEN [db |-> d, result |-> Failure("Secretary account not found")]
     ELSE IF x2.ok
     THEN [db |-> x2.db, result |-> Success("Secretary password reset successfully")]
     ELSE [db |-> x2.db,
           result |-> Failure("An error occurred while resetting secretary password")]

UsersResetSecretaryPassword ==
  \E adminId \in CallerIdInputs, secretaryId \in CallerIdInputs,
     newPassword \in PasswordInputs, fault \in 0..2 :
    Return(resetSecretaryPassword(getDatabase, adminId, secretaryId, newPassword, fault))

\* the process ends (process.on('exit'): db.close()) and a new one starts: the
\* file stays, the handle is not set
Restart ==
  /\ handle
  /\ handle' = FALSE
  /\ UNCHANGED <<db, result, requests>>

\* ------------------------------------------------------------- specifications
\* The account handlers from a new database file, over restarts of the process.
InitUsers ==
  /\ db = newDatabase
  /\ handle = FALSE
  /\ requests = << >>
  /\ result = Success("")

UsersWithinBounds ==
  /\ Len(db'.users) <= MaxUsers
  /\ Len(db'.activity_logs) <= MaxUserLogs

NextUsers ==
  \/ AuthLogin /\ UsersWithinBounds
  \/ AuthChangePassword /\ UsersWithinBounds
  \/ UsersGetSecretaries /\ UsersWithinBounds
  \/ UsersCreateSecretary /\ UsersWithinBounds
  \/ UsersUpdateSecretary /\ UsersWithinBounds
  \/ UsersResetSecretaryPassword /\ UsersWithinBounds
  \/ Restart

SpecUsers == InitUsers /\ [][NextUsers]_vars

\* The stock handlers from the freshly bootstrapped store.
NextSetup ==
  \/ StockCreateCategory
  \/ StockCreateItem
  \/ SupplyCreateSupplier

SpecSetup == Init /\ [][NextSetup]_vars

\* A store with one category and one item in it, each created through its
\* handler by the first admin.
StockedOne ==
  createItem(createCategory(initDatabase(newDatabase), 1, [name |-> "Office"], 0).db,
             1, [category_id |-> 1, sku |-> "A1", current_quantity |-> 1], 0).db

InitStock ==
  /\ db = StockedOne
  /\ handle = TRUE
  /\ requests = << >>
  /\ result = Success("")

\* The stock handlers on that store; the log is kept short.
StockWithinBounds == Len(db'.activity_logs) <= MaxStockLogs

NextStock ==
  \/ StockCreateCategory /\ StockWithinBounds
  \/ StockUpdateCategory /\ StockWithinBounds
  \/ StockDeleteCategory /\ StockWithinBounds
  \/ StockCreateItem /\ StockWithinBounds
  \/ StockUpdateItem /\ StockWithinBounds
  \/ StockUpdateQuantity /\ StockWithinBounds

SpecStock == InitStock /\ [][NextStock]_vars

\* A store the admin has stocked: one category, one supplier and MaxStockItems
\* items, each created through its handler; item i holds MaxStockItems + 1 - i
\* units, so that a line of one item can be covered and a line of another not.
RECURSIVE stockedItems(_, _)
stockedItems(d, i) ==
  IF i > MaxStockItems THEN d
  ELSE stockedItems(
         createItem(d, 1, [category_id |-> 1, sku |-> "SKU" \o ToString(i),
                           current_quantity |-> MaxStockItems + 1 - i], 0).db,
         i + 1)

Stocked ==
  stockedItems(
    createSupplier(createCategory(initDatabase(newDatabase), 1, [name |-> "Office"], 0).db,
                   1, [name |-> "Acme"], 0).db,
    1)

InitStocked ==
  /\ db = Stocked
  /\ handle = TRUE
  /\ requests = << >>
  /\ result = Success("")

\* The caller's numbering protocol on a stocked store without transactions:
\* ask for a reference number, then create the transaction under it.
TransactionCreateNumbered ==
  /\ "referenceNumber" \in DOMAIN result
  /\ \E userId \in UserIdInputs, type \in TransactionTypes,
        items \in {<< >>, << [stock_item_id |-> 1, quantity |-> 1] >>}, fault \in 0..3 :
       LET out == createTransaction(getDatabase, userId,
                    [transaction_type |-> type,
                     reference_number |-> result.referenceNumber,
                     status |-> "pending"], items, fault)
       IN /\ \E n \in SequenceNumbers :
               result.referenceNumber = typePrefix(type) \o padStart4(n)
          /\ Len(out.db.transactions) <= MaxNumbered
          /\ db' = out.db
          /\ handle' = TRUE
          /\ UNCHANGED requests
          /\ result' = out.result

NextNumbers ==
  \/ TransactionGenerateReferenceNumber
  \/ TransactionCreateNumbered

SpecNumbers == InitStocked /\ [][NextNumbers]_vars

\* Numbers the callers choose: on a stocked store, orders and transactions are
\* created under any number of the month, in any order, and the generators
\* are asked for the next number.
SuppliedNumbers == 1..MaxNumbered

SupplyCreateSupplied ==
  \E n \in SuppliedNumbers :
    LET out == createPurchaseOrder(getDatabase, 1,
                 [supplier_id |-> 1, order_number |-> orderPrefix \o padStart4(n),
                  status |-> "pending"], << >>, 0)
    IN /\ Len(out.db.purchase_orders) + Len(out.db.transactions) <= MaxNumbered
       /\ db' = out.db
       /\ handle' = TRUE
       /\ result' = out.result
       /\ UNCHANGED requests

TransactionCreateSupplied ==
  \E type \in TransactionTypes, n \in SuppliedNumbers :
    LET out == createTransaction(getDatabase, 1,
                 [transaction_type |-> type,
                  reference_number |-> typePrefix(type) \o padStart4(n),
                  status |-> "pending"], << >>, 0)
    IN /\ Len(out.db.purchase_orders) + Len(out.db.transactions) <= MaxNumbered
       /\ db' = out.db
       /\ handle' = TRUE
       /\ result' = out.result
       /\ UNCHANGED requests

NextSupplied ==
  \/ SupplyCreateSupplied
  \/ TransactionCreateSupplied
  \/ SupplyGenerateOrderNumber
  \/ TransactionGenerateReferenceNumber

SpecSupplied == InitStocked /\ [][NextSupplied]_vars

\* The order and transaction handlers on a stocked store.
Next ==
  \/ SupplyCreatePurchaseOrder
  \/ SupplyUpdateOrderStatus
  \/ TransactionCreateTransaction
  \/ TransactionUpdateStatus

Spec == InitStocked /\ [][Next]_vars

\* Two status requests in flight.  The UI process issues two requests on the
\* one record of the store without waiting for the first reply; the main
\* process takes them off its event loop one at a time, in either order, and
\* a handler, which has no await, runs to its return before the next starts.

\* stocked stores that hold one pending record, created through its handler
PendingOrderStores ==
  { createPurchaseOrder(Stocked, 1,
      [supplier_id |-> 1, order_number |-> "PO-" \o YearMonth \o "-0001",
       status |-> "pending"], items, 0).db : items \in LineItemInputs }

PendingTransactionStores ==
  { createTransaction(Stocked, 1,
      [transaction_type |-> tx[1], reference_number |-> typePrefix(tx[1]) \o "0001",
       status |-> "pending"], tx[2], 0).db : tx \in TransactionTypes \X LineItemInputs }

InitConcurrent ==
  /\ db \in PendingOrderStores \cup PendingTransactionStores
  /\ handle = TRUE
  /\ requests = << >>
  /\ result = Success("")

\* the status requests a caller can make of the record of store d
StatusRequests(d) ==
  IF Len(d.purchase_orders) > 0
  THEN [channel : {"supply:updateOrderStatus"}, userId : UserIdInputs,
        status : OrderStatusInputs, updateStock : BOOLEAN]
  ELSE [channel : {"transaction:updateStatus"}, userId : UserIdInputs,
        status : TransactionStatusInputs, updateStock : BOOLEAN]

\* ipcMain.handle(channel, handler): the handler of the request's channel
statusHandler(d, request) ==
  IF request.channel = "supply:updateOrderStatus"
  THEN updateOrderStatus(d, request.userId, 1, request.status, request.updateStock, 0)
  ELSE updateStatus(d, request.userId, 1, request.status, request.updateStock, 0)

\* a handler that checks and writes the store as it was when its request was
\* issued, as if it had waited between being called and reading
storeReadAtIssue(d, request) == request.issued

\* const db = getDatabase(); ... .get(orderId): a handler reads the store as it
\* is when it runs
storeRead(d, request) == d

\* ipcRenderer.invoke twice, without awaiting the first
IssueTwoRequests ==
  /\ requests = << >>
  /\ \E first \in StatusRequests(db), second \in StatusRequests(db) :
       requests' = << [request |-> first, issued |-> db, reply |-> << >>],
                      [request |-> second, issued |-> db, reply |-> << >>] >>
  /\ UNCHANGED <<db, handle, result>>

\* the event loop runs the handler of a request that has no reply yet
HandleRequest ==
  \E i \in 1..Len(requests) :
    /\ requests[i].reply = << >>
    /\ LET out == statusHandler(storeRead(getDatabase, requests[i]), requests[i].request)
       IN /\ db' = out.db
          /\ handle' = TRUE
          /\ result' = out.result
          /\ requests' = [requests EXCEPT ![i].reply = << out.result >>]

NextConcurrent ==
  \/ IssueTwoRequests
  \/ HandleRequest

SpecConcurrent == InitConcurrent /\ [][NextConcurrent]_vars

\* ------------------------------------------------------------- properties
\* A handler is a function of the store and its arguments: a property of a call
\* is stated of the handler's outcome in every reachable store, for every
\* argument and every point at which the store can fail.

\* current_quantity of every stock item
Quantities(d) == [s \in 1..Len(d.stock_items) |-> d.stock_items[s].current_quantity]

\* the line items stored for transaction t, and for order o, in rowid order
LinesOfTransaction(d, t) == SelectSeq(d.transaction_items, LAMBDA r : r.transaction_id = t)
LinesOfOrder(d, o) == SelectSeq(d.purchase_order_items, LAMBDA r : r.purchase_order_id = o)

\* the total quantity the lines ask of stock item s
RECURSIVE LineTotal(_, _, _)
LineTotal(lines, s, i) ==
  IF i > Len(lines) THEN 0
  ELSE (IF lines[i].stock_item_id = s THEN lines[i].quantity ELSE 0)
       + LineTotal(lines, s, i + 1)

\* the activity-log rows a call appended, d2 being the store it left
NewLogs(d2) == SubSeq(d2.activity_logs, Len(db.activity_logs) + 1, Len(d2.activity_logs))

OrderStatus(d, o) == d.purchase_orders[o].status
TransactionStatus(d, t) == d.transactions[t].status
PendingTransaction(t) == TransactionStatus(db, t) = "pending"
PendingIssuance(t) == PendingTransaction(t) /\ db.transactions[t].transaction_type = "issuance"
KnownUser(userId) == userId \in 1..Len(db.users)

\* some line of transaction t asks for more than its item holds
AsksMoreThanStock(t) ==
  \E i \in 1..Len(LinesOfTransaction(db, t)) :
    LET line == LinesOfTransaction(db, t)[i]
    IN line.quantity > Quantities(db)[line.stock_item_id]

\* C1: approving a pending issuance with stock update, when a line asks for more
\* than its item's current stock, fails and leaves the whole store as it was:
\* no quantity changed, no log row added, the transaction still pending.
C1_InsufficientApprovalChangesNothing ==
  \A t \in 1..Len(db.transactions), userId \in UserIdInputs, fault \in FaultInputs :
    (PendingIssuance(t) /\ AsksMoreThanStock(t))
    => LET out == updateStatus(db, userId, t, "approved", TRUE, fault)
       IN /\ out.result.success = FALSE
          /\ out.db = db
          /\ TransactionStatus(out.db, t) = "pending"

\* the refusal reached the caller after an earlier line of the loop had been
\* applied: line 1 (item 1) is covered, line 2 (item 2) is not
C1_Witness ==
  /\ result = Failure("Insufficient stock quantity for item ID 2")
  /\ Len(db.transactions) = 1
  /\ PendingIssuance(1)
  /\ Len(LinesOfTransaction(db, 1)) = 2
  /\ LinesOfTransaction(db, 1)[1].stock_item_id = 1
  /\ LinesOfTransaction(db, 1)[1].quantity <= Quantities(db)[1]
  /\ LinesOfTransaction(db, 1)[2].stock_item_id = 2
  /\ LinesOfTransaction(db, 1)[2].quantity > Quantities(db)[2]

\* what the log shows for a line of q units, by transaction type
SignedQuantity(type, q) == IF type = "issuance" THEN "-" \o ToString(q) ELSE "+" \o ToString(q)

\* the direction a transaction of the type moves stock
Direction(type) == IF type = "issuance" THEN -1 ELSE 1

\* the lines of transaction t ask no item for more than it holds, all together
Covered(t) ==
  \A s \in 1..Len(db.stock_items) :
    LineTotal(LinesOfTransaction(db, t), s, 1) <= Quantities(db)[s]

\* C2: a successful approval with stock update of a pending transaction moves
\* every stock item by exactly the quantities of its lines, down for an issuance
\* and up for a return or an adjustment; it appends one stock_item log row per
\* line, carrying the signed quantity, and then one row for the status change.
\* With a known user and a working store the approval does succeed when the
\* stock covers the lines.
C2_ApprovalAppliesLines ==
  \A t \in 1..Len(db.transactions), userId \in UserIdInputs, fault \in FaultInputs :
    PendingTransaction(t)
    => LET out == updateStatus(db, userId, t, "approved", TRUE, fault)
           lines == LinesOfTransaction(db, t)
           type == db.transactions[t].transaction_type
           ref == db.transactions[t].reference_number
           logs == NewLogs(out.db)
       IN /\ out.result.success
             => /\ TransactionStatus(out.db, t) = "approved"
                /\ \A s \in 1..Len(db.stock_items) :
                     Quantities(out.db)[s]
                       = Quantities(db)[s] + Direction(type) * LineTotal(lines, s, 1)
                /\ Len(logs) = Len(lines) + 1
                /\ \A i \in 1..Len(lines) :
                     logs[i] =
                       [user_id |-> userId, action |-> "update",
                        entity_type |-> "stock_item",
                        entity_id |-> lines[i].stock_item_id,
                        details |-> "Updated quantity ("
                          \o SignedQuantity(type, lines[i].quantity)
                          \o ") from approved " \o type \o " transaction: " \o ref]
                /\ logs[Len(lines) + 1].entity_type = "transaction"
                /\ logs[Len(lines) + 1].entity_id = t
          /\ ( /\ KnownUser(userId)
               /\ fault = 0
               /\ type = "issuance" => Covered(t) )
             => out.result.success

\* an issuance of one unit of item 1 and one of item 2 was approved: the items
\* hold one unit less each and the log shows "-1" for each line
C2_Witness ==
  /\ result = Success("Transaction approved successfully")
  /\ Len(db.transactions) = 1
  /\ TransactionStatus(db, 1) = "approved"
  /\ db.transactions[1].transaction_type = "issuance"
  /\ Quantities(db) = [s \in 1..Len(db.stock_items) |-> Quantities(Stocked)[s] - 1]
  /\ LET n == Len(db.activity_logs)
     IN /\ db.activity_logs[n - 2].details
             = "Updated quantity (-1) from approved issuance transaction: ISS-2611-0001"
        /\ db.activity_logs[n - 1].details
             = "Updated quantity (-1) from approved issuance transaction: ISS-2611-0001"
        /\ db.activity_logs[n].entity_type = "transaction"

\* C3: a successful approval of an issuance leaves no stock item below zero
\* that was not below zero before, also when several lines name the same item.
C3_IssuanceNeverDrivesStockNegative ==
  \A t \in 1..Len(db.transactions), userId \in UserIdInputs, updateStock \in BOOLEAN,
     fault \in FaultInputs :
    PendingIssuance(t)
    => LET out == updateStatus(db, userId, t, "approved", updateStock, fault)
       IN out.result.success
          => \A s \in 1..Len(db.stock_items) :
               Quantities(db)[s] >= 0 => Quantities(out.db)[s] >= 0

\* an issuance with two lines of one unit of item 1 was approved and took the
\* item from two units to none
C3_Witness ==
  /\ result = Success("Transaction approved successfully")
  /\ Len(db.transactions) = 1
  /\ TransactionStatus(db, 1) = "approved"
  /\ db.transactions[1].transaction_type = "issuance"
  /\ Len(LinesOfTransaction(db, 1)) = 2
  /\ \A i \in 1..2 : LinesOfTransaction(db, 1)[i] =
                       [transaction_id |-> 1, stock_item_id |-> 1, quantity |-> 1]
  /\ Quantities(Stocked)[1] = 2
  /\ Quantities(db)[1] = 0

\* C4: an order becomes received only from approved, never straight from
\* pending, so that every received order was approved earlier.
C4_ReceivedOnlyFromApproved ==
  [][ \A o \in 1..Len(db.purchase_orders) :
        (OrderStatus(db, o) # "received" /\ OrderStatus(db', o) = "received")
        => OrderStatus(db, o) = "approved" ]_vars

\* C5: a call of supply:updateOrderStatus on a received or cancelled order fails
\* with the state-conflict message and leaves the whole store as it was.
C5_FinalOrderIsRefused ==
  \A o \in 1..Len(db.purchase_orders), userId \in UserIdInputs,
     status \in OrderStatusInputs, updateStock \in BOOLEAN, fault \in FaultInputs :
    OrderStatus(db, o) \in {"received", "cancelled"}
    => LET out == updateOrderStatus(db, userId, o, status, updateStock, fault)
       IN /\ out.result = Failure("Cannot change status of " \o OrderStatus(db, o)
                                    \o " purchase order")
          /\ out.db = db

\* a received order was asked to change and the call was refused
C5_Witness ==
  /\ result = Failure("Cannot change status of received purchase order")
  /\ Len(db.purchase_orders) = 1
  /\ OrderStatus(db, 1) = "received"

\* C6: a call of transaction:updateStatus on an approved or cancelled
\* transaction fails and leaves the whole store as it was.
C6_FinalTransactionIsRefused ==
  \A t \in 1..Len(db.transactions), userId \in UserIdInputs,
     status \in TransactionStatusInputs, updateStock \in BOOLEAN, fault \in FaultInputs :
    TransactionStatus(db, t) \in {"approved", "cancelled"}
    => LET out == updateStatus(db, userId, t, status, updateStock, fault)
       IN /\ out.result.success = FALSE
          /\ out.db = db

\* an approved transaction was asked to change and the call was refused
C6_Witness ==
  /\ result = Failure("Cannot change status of approved transaction")
  /\ Len(db.transactions) = 1
  /\ TransactionStatus(db, 1) = "approved"
  /\ db.transactions[1].approved_by = 1

\* C7: no step takes a status backwards.  A transaction changes status only
\* from pending, to approved or cancelled; an order that has left pending
\* never is pending again, and a received or cancelled order keeps its status.
C7_StatusNeverRegresses ==
  [][ /\ Len(db'.transactions) >= Len(db.transactions)
      /\ Len(db'.purchase_orders) >= Len(db.purchase_orders)
      /\ \A t \in 1..Len(db.transactions) :
           TransactionStatus(db', t) # TransactionStatus(db, t)
           => /\ TransactionStatus(db, t) = "pending"
              /\ TransactionStatus(db', t) \in {"approved", "cancelled"}
      /\ \A o \in 1..Len(db.purchase_orders) :
           /\ OrderStatus(db, o) # "pending" => OrderStatus(db', o) # "pending"
           /\ OrderStatus(db, o) \in {"received", "cancelled"}
              => OrderStatus(db', o) = OrderStatus(db, o) ]_vars

\* an order went from pending to approved to cancelled, and a later call on it
\* was refused
C7_Witness ==
  /\ result = Failure("Cannot change status of cancelled purchase order")
  /\ Len(db.purchase_orders) = 1
  /\ OrderStatus(db, 1) = "cancelled"
  /\ db.purchase_orders[1].approved_by = 1

\* C8: a successful move of an order to received with the stock-update flag
\* adds the quantity of each of its N lines to the line's stock item, and appends
\* exactly N stock_item log rows, one per line, then one purchase_order row.
\* Nothing is checked against the stock: with a known user and a working store
\* the call succeeds on every order that is not received or cancelled.
C8_ReceivingAddsLines ==
  \A o \in 1..Len(db.purchase_orders), userId \in UserIdInputs, fault \in FaultInputs :
    OrderStatus(db, o) \in {"pending", "approved"}
    => LET out == updateOrderStatus(db, userId, o, "received", TRUE, fault)
           lines == LinesOfOrder(db, o)
           number == db.purchase_orders[o].order_number
           logs == NewLogs(out.db)
       IN /\ out.result.success
             => /\ OrderStatus(out.db, o) = "received"
                /\ \A s \in 1..Len(db.stock_items) :
                     Quantities(out.db)[s] = Quantities(db)[s] + LineTotal(lines, s, 1)
                /\ Len(logs) = Len(lines) + 1
                /\ \A i \in 1..Len(lines) :
                     logs[i] =
                       [user_id |-> userId, action |-> "update",
                        entity_type |-> "stock_item",
                        entity_id |-> lines[i].stock_item_id,
                        details |-> "Updated quantity (+" \o ToString(lines[i].quantity)
                          \o ") from received purchase order: " \o number]
                /\ logs[Len(lines) + 1] =
                     [user_id |-> userId, action |-> "update",
                      entity_type |-> "purchase_order", entity_id |-> o,
                      details |-> "Updated purchase order status to received: " \o number]
          /\ (KnownUser(userId) /\ fault = 0) => out.result.success

\* an order of two units of item 1 and one unit of item 2 was received: the
\* items hold that much more and the log ends with two stock_item rows and the
\* purchase_order row
C8_Witness ==
  /\ result = Success("Purchase order marked as received successfully")
  /\ Len(db.purchase_orders) = 1
  /\ OrderStatus(db, 1) = "received"
  /\ Len(LinesOfOrder(db, 1)) = 2
  /\ LinesOfOrder(db, 1)[1].stock_item_id = 1 /\ LinesOfOrder(db, 1)[1].quantity = 2
  /\ LinesOfOrder(db, 1)[2].stock_item_id = 2 /\ LinesOfOrder(db, 1)[2].quantity = 1
  /\ Quantities(db)[1] = Quantities(Stocked)[1] + 2
  /\ Quantities(db)[2] = Quantities(Stocked)[2] + 1
  /\ LET n == Len(db.activity_logs)
     IN /\ db.activity_logs[n - 2].details
             = "Updated quantity (+2) from received purchase order: PO-2611-0001"
        /\ db.activity_logs[n - 1].details
             = "Updated quantity (+1) from received purchase order: PO-2611-0001"
        /\ db.activity_logs[n].entity_type = "purchase_order"

\* the statements a status call runs after BEGIN, the commit included: the
\* status write, an update and a log row for each of n lines when stock is
\* applied, the log row of the status change, and COMMIT
StatementsOfUpdate(applies, n) == 1 + (IF applies THEN 2 * n ELSE 0) + 2

\* C9: a status call on an order or a transaction is all-or-nothing.  When one
\* of its statements fails (the status write, a stock update, a log insert or
\* the commit) the call returns failure; and every call that returns failure
\* leaves the status, the approver, every stock quantity and the activity log,
\* indeed the whole store, as they were before the call.
C9_StatusChangeIsAllOrNothing ==
  \A userId \in UserIdInputs, updateStock \in BOOLEAN, fault \in FaultInputs :
    /\ \A o \in 1..Len(db.purchase_orders), status \in OrderStatusInputs :
         LET out == updateOrderStatus(db, userId, o, status, updateStock, fault)
             applies == status = "received" /\ updateStock
             n == Len(LinesOfOrder(db, o))
         IN /\ (fault \in 1..StatementsOfUpdate(applies, n) \/ ~KnownUser(userId))
               => ~out.result.success
            /\ ~out.result.success
               => /\ out.db = db
                  /\ OrderStatus(out.db, o) = OrderStatus(db, o)
                  /\ out.db.purchase_orders[o].approved_by = db.purchase_orders[o].approved_by
                  /\ Quantities(out.db) = Quantities(db)
                  /\ out.db.activity_logs = db.activity_logs
    /\ \A t \in 1..Len(db.transactions), status \in TransactionStatusInputs :
         LET out == updateStatus(db, userId, t, status, updateStock, fault)
             applies == status = "approved" /\ updateStock
             n == Len(LinesOfTransaction(db, t))
         IN /\ (fault \in 1..StatementsOfUpdate(applies, n) \/ ~KnownUser(userId))
               => ~out.result.success
            /\ ~out.result.success
               => /\ out.db = db
                  /\ TransactionStatus(out.db, t) = TransactionStatus(db, t)
                  /\ out.db.transactions[t].approved_by = db.transactions[t].approved_by
                  /\ Quantities(out.db) = Quantities(db)
                  /\ out.db.activity_logs = db.activity_logs

\* a status call on a pending order with two lines failed part-way: the order
\* is still pending and unapproved, the stock is what it was, and the log
\* holds nothing after the row of the order's creation
C9_Witness ==
  /\ result = Failure("An error occurred while updating purchase order status")
  /\ Len(db.purchase_orders) = 1
  /\ OrderStatus(db, 1) = "pending"
  /\ db.purchase_orders[1].approved_by = NULL
  /\ Len(LinesOfOrder(db, 1)) = 2
  /\ Quantities(db) = Quantities(Stocked)
  /\ db.activity_logs[Len(db.activity_logs)].details = "Created purchase order: PO-2611-0001"

\* the statements a create call runs after BEGIN: the record, its n line items,
\* the log row, and COMMIT
StatementsOfCreate(n) == 1 + n + 2

\* the rows a create call stores for its line items, under the record's id
StoredLines(items, key, id) ==
  [i \in 1..Len(items) |->
     [k \in {key, "stock_item_id", "quantity"} |->
        IF k = key THEN id
        ELSE IF k = "stock_item_id" THEN items[i].stock_item_id
        ELSE items[i].quantity]]

\* C10: creating a purchase order or a transaction is all-or-nothing and always
\* pending.  A successful call stores exactly the record, with status pending
\* whatever status the caller supplied, all the line items supplied, and one
\* log row.  A call that fails (a duplicate number, an unknown user, a failing
\* insert of the record, of a line item or of the log row, a failing commit)
\* leaves the store as it was.
C10_CreateIsAllOrNothingAndPending ==
  \A userId \in UserIdInputs, status \in CreateStatusInputs, items \in LineItemInputs,
     fault \in FaultInputs :
    /\ \A supplier_id \in 1..MaxSuppliers, order_number \in OrderNumberInputs :
         LET order == [supplier_id |-> supplier_id, order_number |-> order_number,
                       status |-> status]
             out == createPurchaseOrder(db, userId, order, items, fault)
             id == Len(db.purchase_orders) + 1
         IN /\ ( \/ ~purchaseOrderAllowed(db, userId, order)
                 \/ fault \in 1..StatementsOfCreate(Len(items)) )
               => ~out.result.success
            /\ IF out.result.success
               THEN /\ Len(out.db.purchase_orders) = id
                    /\ OrderStatus(out.db, id) = "pending"
                    /\ out.db.purchase_orders[id].order_number = order_number
                    /\ SubSeq(out.db.purchase_orders, 1, id - 1) = db.purchase_orders
                    /\ out.db.purchase_order_items
                         = db.purchase_order_items
                             \o StoredLines(items, "purchase_order_id", id)
                    /\ Len(NewLogs(out.db)) = 1
                    /\ NewLogs(out.db)[1].entity_type = "purchase_order"
                    /\ NewLogs(out.db)[1].entity_id = id
                    /\ SubSeq(out.db.activity_logs, 1, Len(db.activity_logs))
                         = db.activity_logs
               ELSE out.db = db
    /\ \A type \in TransactionTypes :
         \A reference_number \in ReferenceNumberInputs(type) :
           LET transaction == [transaction_type |-> type,
                               reference_number |-> reference_number, status |-> status]
               out == createTransaction(db, userId, transaction, items, fault)
               id == Len(db.transactions) + 1
           IN /\ ( \/ ~transactionAllowed(db, userId, transaction)
                   \/ fault \in 1..StatementsOfCreate(Len(items)) )
                 => ~out.result.success
              /\ IF out.result.success
                 THEN /\ Len(out.db.transactions) = id
                      /\ TransactionStatus(out.db, id) = "pending"
                      /\ out.db.transactions[id].reference_number = reference_number
                      /\ SubSeq(out.db.transactions, 1, id - 1) = db.transactions
                      /\ out.db.transaction_items
                           = db.transaction_items
                               \o StoredLines(items, "transaction_id", id)
                      /\ Len(NewLogs(out.db)) = 1
                      /\ NewLogs(out.db)[1].entity_type = "transaction"
                      /\ NewLogs(out.db)[1].entity_id = id
                      /\ SubSeq(out.db.activity_logs, 1, Len(db.activity_logs))
                           = db.activity_logs
                 ELSE out.db = db

\* an order was created with two line items: it is stored pending, with both
\* lines and the log row of its creation
C10_Witness ==
  /\ result = Success("Purchase order created successfully")
  /\ Len(db.purchase_orders) = 1
  /\ OrderStatus(db, 1) = "pending"
  /\ Len(LinesOfOrder(db, 1)) = 2
  /\ Len(db.activity_logs) = Len(Stocked.activity_logs) + 1
  /\ db.activity_logs[Len(db.activity_logs)].details = "Created purchase order: PO-2611-0001"

\* the SKUs stored, a row without one (NULL) apart
StoredSkus(d) ==
  {d.stock_items[k].sku : k \in 1..Len(d.stock_items)} \ {NULL_TEXT}

\* C11: no two stock items hold the same SKU, whatever createItem and
\* updateItem calls were made; and a createItem call with a SKU that is stored
\* fails with "SKU already exists" and leaves the store as it was.
C11_SkuIsUnique ==
  /\ \A i, j \in 1..Len(db.stock_items) :
       (i # j /\ db.stock_items[i].sku # NULL_TEXT)
       => db.stock_items[i].sku # db.stock_items[j].sku
  /\ \A userId \in UserIdInputs, category_id \in CategoryIdInputs,
        sku \in StoredSkus(db), current_quantity \in QuantityInputs, fault \in 0..2 :
       LET out == createItem(db, userId,
                             [category_id |-> category_id, sku |-> sku,
                              current_quantity |-> current_quantity], fault)
       IN /\ out.result = Failure("SKU already exists")
          /\ out.db = db

\* two items with different SKUs are stored, and a call that would have given
\* one of them a stored SKU was refused
C11_Witness ==
  /\ result = Failure("SKU already exists")
  /\ Len(db.stock_items) = 2
  /\ db.stock_items[1].sku = "A1"
  /\ db.stock_items[2].sku = "B2"

\* some stock item references the category
Referenced(d, categoryId) ==
  \E k \in 1..Len(d.stock_items) : d.stock_items[k].category_id = categoryId

\* the store after the first admin has added a category no item is in
WithSpareCategory(d) == createCategory(d, 1, [name |-> "Spare"], 0).db

\* stock:deleteCategory on a stored category of d is refused, and removes
\* nothing, while a stock item references the category; when no stock item
\* references it, a call by a known user on a working store succeeds and the
\* category row is gone
DeletesOnlyUnreferenced(d) ==
  \A categoryId \in 1..Len(d.stock_categories), userId \in UserIdInputs, fault \in 0..2 :
    categoryExists(d, categoryId)
    => LET out == deleteCategory(d, userId, categoryId, fault)
       IN IF Referenced(d, categoryId)
          THEN /\ out.result = Failure("Cannot delete category with existing stock items")
               /\ out.db = d
          ELSE (KnownUser(userId) /\ fault = 0)
               => /\ out.result = Success("Category deleted successfully")
                  /\ ~categoryExists(out.db, categoryId)
                  /\ out.db.stock_items = d.stock_items

\* C12: stock:deleteCategory is refused, and removes nothing, while a stock
\* item references the category; when no stock item references it (the spare
\* category of a store that has one, or a category its items have left) a
\* call by a known user on a working store succeeds and removes the row.
C12_DeleteCategoryOnlyWhenUnreferenced ==
  /\ DeletesOnlyUnreferenced(db)
  /\ DeletesOnlyUnreferenced(WithSpareCategory(db))
  /\ Len(WithSpareCategory(db).stock_categories) = Len(db.stock_categories) + 1
  /\ ~Referenced(WithSpareCategory(db), Len(db.stock_categories) + 1)

\* a deletion was refused: the category is stored and an item references it
C12_Witness ==
  /\ result = Failure("Cannot delete category with existing stock items")
  /\ categoryExists(db, 1)
  /\ Referenced(db, 1)

\* how many of the first k transactions are of the type of transaction k
RankInType(d, k) ==
  Cardinality({j \in 1..k :
                 d.transactions[j].transaction_type = d.transactions[k].transaction_type})

\* C13: when every transaction is created under the number that
\* generateReferenceNumber returned for its type, the transactions of a type
\* carry, in the order of their creation, the sequence numbers 0001, 0002,
\* 0003, ... behind the type's year-month prefix; and the next number generated
\* for a type is one more than the last.
C13_ReferenceNumbersCountUp ==
  /\ \A k \in 1..Len(db.transactions) :
       db.transactions[k].reference_number
         = typePrefix(db.transactions[k].transaction_type) \o padStart4(RankInType(db, k))
  /\ \A type \in TransactionTypes :
       generateReferenceNumber(db, type).referenceNumber
         = typePrefix(type)
             \o padStart4(1 + Cardinality({k \in 1..Len(db.transactions) :
                                             db.transactions[k].transaction_type = type}))

\* three issuances were created one after the other, numbered 0001 to 0003
C13_Witness ==
  /\ result = Success("Transaction created successfully")
  /\ Len(db.transactions) = 3
  /\ \A k \in 1..3 :
       /\ db.transactions[k].transaction_type = "issuance"
       /\ db.transactions[k].reference_number = "ISS-2611-" \o padStart4(k)

\* every password an account of the model can have been given
KnownPasswords ==
  PasswordInputs \cup {adminUsers[i].password : i \in 1..Len(adminUsers)}

\* C14: every stored user password is the hash of a password, for the seeded
\* admins as well as for the secretaries.
C14_StoredPasswordsAreHashes ==
  \A k \in 1..Len(db.users) :
    \E password \in KnownPasswords : db.users[k].password = hashPassword(password)

\* the users the credentials are good for: the name, the hash of the password
\* and the active flag
GoodFor(d, username, password) ==
  {k \in 1..Len(d.users) :
     /\ d.users[k].username = username
     /\ d.users[k].password = hashPassword(password)
     /\ d.users[k].is_active}

\* C15: auth:login succeeds exactly when a user is stored with the name, with
\* the hash of the supplied password as its password, and active (the store
\* working); a successful login appends exactly one log row, for that user, and
\* changes nothing else; a login that fails changes nothing.
C15_LoginChecksNamePasswordAndActive ==
  \A username \in UsernameInputs, password \in PasswordInputs, fault \in 0..1 :
    LET d == getDatabase
        out == login(d, username, password, fault)
        good == GoodFor(d, username, password)
    IN /\ out.result.success => good # {}
       /\ (good # {} /\ fault = 0) => out.result.success
       /\ out.result.success
          => \E k \in good :
               /\ out.result.user.id = k
               /\ out.db = [d EXCEPT !.activity_logs = Append(@,
                    [user_id |-> k, action |-> "login", entity_type |-> "user",
                     entity_id |-> k, details |-> "User logged in"])]
       /\ ~out.result.success => out.db = d

\* the secretary created as user 3 has logged in, and the log ends with the row
\* of that login
C15_Witness ==
  /\ result.success
  /\ "user" \in DOMAIN result
  /\ result.user = [id |-> 3, username |-> "ana", role |-> "secretary"]
  /\ db.users[3].is_active
  /\ db.activity_logs[Len(db.activity_logs)] =
       [user_id |-> 3, action |-> "login", entity_type |-> "user", entity_id |-> 3,
        details |-> "User logged in"]

\* the caller id names a stored user that is an admin and is active
ActiveAdmin(d, callerId) ==
  /\ callerId \in 1..Len(d.users)
  /\ d.users[callerId].role = "admin"
  /\ d.users[callerId].is_active

\* what C16 asks of the outcome of a user-management call
OnlyForActiveAdmin(d, callerId, out) ==
  /\ out.result.success => ActiveAdmin(d, callerId)
  /\ ~ActiveAdmin(d, callerId)
     => /\ out.result = Failure("Unauthorized access")
        /\ out.db = d

\* C16: each of users:getSecretaries, createSecretary, updateSecretary and
\* resetSecretaryPassword succeeds only for a caller id that names an active
\* admin; for every other caller id it returns "Unauthorized access" and
\* leaves the store as it was.
C16_UserManagementOnlyForActiveAdmin ==
  LET d == getDatabase
  IN \A callerId \in CallerIdInputs :
       /\ OnlyForActiveAdmin(d, callerId, getSecretaries(d, callerId))
       /\ \A username \in UsernameInputs, password \in PasswordInputs,
             is_active \in BOOLEAN, fault \in 0..2 :
            OnlyForActiveAdmin(d, callerId,
              createSecretary(d, callerId,
                              [username |-> username, password |-> password,
                               is_active |-> is_active], fault))
       /\ \A secretaryId \in CallerIdInputs, isActive \in BOOLEAN, fault \in 0..2 :
            OnlyForActiveAdmin(d, callerId,
              updateSecretary(d, callerId, secretaryId, isActive, fault))
       /\ \A secretaryId \in CallerIdInputs, newPassword \in PasswordInputs,
             fault \in 0..2 :
            OnlyForActiveAdmin(d, callerId,
              resetSecretaryPassword(d, callerId, secretaryId, newPassword, fault))

\* a call was turned away as unauthorized while an active secretary, user 3,
\* is stored: the id of a user that is no admin
C16_Witness ==
  /\ result = Failure("Unauthorized access")
  /\ Len(db.users) = 3
  /\ db.users[3].role = "secretary"
  /\ db.users[3].is_active

\* the seed accounts as the bootstrap stores them
SeededUsers ==
  [i \in 1..Len(adminUsers) |->
     [username |-> adminUsers[i].username, password |-> adminUsers[i].password,
      role |-> adminUsers[i].role, is_active |-> TRUE]]

\* C18: bootstrap is lazy and idempotent.  The first getDatabase of a process
\* on a new file creates the schema and the two seed admins; once the handle is
\* set, getDatabase gives the store as it is; and initDatabase on a store that
\* has been bootstrapped, as the first access of a later process runs it,
\* changes nothing: no user is added, no row removed, no account's password,
\* role or active flag overwritten.
C18_BootstrapIsLazyAndIdempotent ==
  /\ (~handle /\ db = newDatabase)
     => /\ getDatabase.schema = TableNames
        /\ getDatabase.users = SeededUsers
  /\ handle
     => /\ getDatabase = db
        /\ db.schema = TableNames
        /\ SubSeq(db.users, 1, Len(adminUsers)) = SeededUsers
  /\ db # newDatabase
     => /\ initDatabase(db) = db
        /\ getDatabase = db

\* a process has ended over a store that holds a third account, deactivated:
\* the next access runs the bootstrap on it again
C18_Witness ==
  /\ ~handle
  /\ db.schema = TableNames
  /\ Len(db.users) = 3
  /\ db.users[3].role = "secretary"
  /\ ~db.users[3].is_active
  /\ result = Success("Secretary account deactivated successfully")

\* a call that returns failure has left the store d as it was
NothingPersists(d, out) == ~out.result.success => out.db = d

\* C17: a mutating operation that makes more than one store write leaves no
\* partial state: when one of its writes fails it returns failure and none of
\* its writes persists.  Stated of the stock, supplier, auth and user
\* operations that write an entity and then an activity-log row.
C17_NoPartialState ==
  LET d == getDatabase
  IN \A userId \in UserIdInputs, fault \in 0..2 :
       /\ \A name \in CategoryNameInputs :
            /\ NothingPersists(d, createCategory(d, userId, [name |-> name], fault))
            /\ \A categoryId \in 1..MaxCategories :
                 NothingPersists(d, updateCategory(d, userId, categoryId,
                                                   [name |-> name], fault))
       /\ \A categoryId \in 1..MaxCategories :
            NothingPersists(d, deleteCategory(d, userId, categoryId, fault))
       /\ \A category_id \in CategoryIdInputs, sku \in SkuInputs,
             current_quantity \in QuantityInputs :
            NothingPersists(d, createItem(d, userId,
                                          [category_id |-> category_id, sku |-> sku,
                                           current_quantity |-> current_quantity], fault))
       /\ \A itemId \in 1..MaxStockItems :
            /\ \A item \in ItemPatchInputs :
                 NothingPersists(d, updateItem(d, userId, itemId, item, fault))
            /\ \A newQuantity \in NewQuantityInputs :
                 NothingPersists(d, updateQuantity(d, userId, itemId, newQuantity,
                                                   "count", fault))
       /\ \A name \in SupplierNameInputs :
            NothingPersists(d, createSupplier(d, userId, [name |-> name], fault))
       /\ \A currentPassword \in KnownPasswords, newPassword \in PasswordInputs :
            NothingPersists(d, changePassword(d, userId, currentPassword,
                                              newPassword, fault))
       /\ \A username \in UsernameInputs, password \in PasswordInputs :
            NothingPersists(d, createSecretary(d, userId,
                                               [username |-> username,
                                                password |-> password,
                                                is_active |-> TRUE], fault))

\* C20: every stock item references a stored category, whatever createItem,
\* updateItem, createCategory and deleteCategory calls were made; and a
\* createItem call that names no stored category fails with "Category not
\* found" and stores nothing.
C20_ItemsReferenceACategory ==
  /\ \A k \in 1..Len(db.stock_items) : categoryExists(db, db.stock_items[k].category_id)
  /\ \A userId \in UserIdInputs, category_id \in CategoryIdInputs, sku \in SkuInputs,
        current_quantity \in QuantityInputs, fault \in 0..2 :
       (~categoryExists(db, category_id) /\ sku \notin StoredSkus(db))
       => LET out == createItem(db, userId,
                                [category_id |-> category_id, sku |-> sku,
                                 current_quantity |-> current_quantity], fault)
          IN /\ out.result = Failure("Category not found")
             /\ out.db = db

\* the call kept every log row of d in place, and if it succeeded it added at
\* least one row, each new row in the name of userId
LogGrew(d, out, userId) ==
  LET before == d.activity_logs
      after == out.db.activity_logs
  IN /\ Len(after) >= Len(before)
     /\ SubSeq(after, 1, Len(before)) = before
     /\ out.result.success
        => /\ Len(after) > Len(before)
           /\ \A i \in (Len(before) + 1)..Len(after) : after[i].user_id = userId

\* the store after the first admin has added an active secretary
WithSecretary(d) ==
  createSecretary(d, 1, [username |-> "ana", password |-> "pw", is_active |-> TRUE], 0).db

\* C19: the activity log is append-only and records every mutating action.
\* Every call of a mutating handler leaves the rows that were in the log in
\* place, and every successful one adds at least one row in the name of the
\* user id the caller supplied (for a login: of the user logged in).
C19_LogIsAppendOnlyAndComplete ==
  \A userId \in UserIdInputs, fault \in FaultInputs :
    /\ \A name \in {"Office", "Tools"} :
         /\ LogGrew(db, createCategory(db, userId, [name |-> name], fault), userId)
         /\ LogGrew(db, updateCategory(db, userId, 1, [name |-> name], fault), userId)
         /\ LogGrew(db, createSupplier(db, userId, [name |-> name], fault), userId)
         /\ \A supplierId \in 1..(MaxSuppliers + 1) :
              LogGrew(db, updateSupplier(db, userId, supplierId, [name |-> name], fault),
                      userId)
    /\ \A categoryId \in 1..Len(WithSpareCategory(db).stock_categories) :
         LogGrew(WithSpareCategory(db),
                 deleteCategory(WithSpareCategory(db), userId, categoryId, fault), userId)
    /\ \A category_id \in CategoryIdInputs, sku \in SkuInputs :
         LogGrew(db, createItem(db, userId,
                                [category_id |-> category_id, sku |-> sku,
                                 current_quantity |-> 1], fault), userId)
    /\ \A itemId \in 1..MaxStockItems :
         /\ \A item \in ItemPatchInputs :
              LogGrew(db, updateItem(db, userId, itemId, item, fault), userId)
         /\ \A newQuantity \in NewQuantityInputs :
              LogGrew(db, updateQuantity(db, userId, itemId, newQuantity, "count", fault),
                      userId)
    /\ \A items \in LineItemInputs :
         /\ \A order_number \in OrderNumberInputs :
              LogGrew(db, createPurchaseOrder(db, userId,
                            [supplier_id |-> 1, order_number |-> order_number,
                             status |-> "pending"], items, fault), userId)
         /\ \A type \in TransactionTypes :
              LogGrew(db, createTransaction(db, userId,
                            [transaction_type |-> type,
                             reference_number |->
                               generateReferenceNumber(db, type).referenceNumber,
                             status |-> "pending"], items, fault), userId)
    /\ \A updateStock \in BOOLEAN :
         /\ \A o \in 1..Len(db.purchase_orders), status \in OrderStatusInputs :
              LogGrew(db, updateOrderStatus(db, userId, o, status, updateStock, fault),
                      userId)
         /\ \A t \in 1..Len(db.transactions), status \in TransactionStatusInputs :
              LogGrew(db, updateStatus(db, userId, t, status, updateStock, fault), userId)
    /\ \A password \in PasswordInputs :
         /\ LogGrew(db, createSecretary(db, userId,
                          [username |-> "ana", password |-> password,
                           is_active |-> TRUE], fault), userId)
         /\ \A secretaryId \in CallerIdInputs :
              /\ LogGrew(WithSecretary(db),
                         resetSecretaryPassword(WithSecretary(db), userId, secretaryId,
                                                password, fault), userId)
              /\ LogGrew(WithSecretary(db),
                         updateSecretary(WithSecretary(db), userId, secretaryId,
                                         FALSE, fault), userId)
              /\ LogGrew(WithSecretary(db),
                         changePassword(WithSecretary(db), secretaryId, password,
                                        "new", fault), secretaryId)
         /\ LogGrew(WithSecretary(db), login(WithSecretary(db), "ana", password, fault),
                    Len(WithSecretary(db).users))

\* an approval went through: the log of the stocked store is still there, row
\* for row, and after it come the rows of the later calls, the last one the
\* approval's, in the name of the approver
C19_Witness ==
  /\ result = Success("Purchase order approved successfully")
  /\ Len(db.activity_logs) = Len(Stocked.activity_logs) + 2
  /\ SubSeq(db.activity_logs, 1, Len(Stocked.activity_logs)) = Stocked.activity_logs
  /\ db.activity_logs[Len(db.activity_logs)] =
       [user_id |-> 1, action |-> "update", entity_type |-> "purchase_order",
        entity_id |-> 1,
        details |-> "Updated purchase order status to approved: PO-2611-0001"]

\* the supplier of the order row is a stored supplier
SupplierStored(d, order) == order.supplier_id \in 1..Len(d.suppliers)

BothAnswered ==
  /\ Len(requests) = 2
  /\ requests[1].reply # << >>
  /\ requests[2].reply # << >>

\* the store and the two replies when request i of the two runs first, to its
\* return, and the other one after it
OneAfterTheOther(i) ==
  LET j == 3 - i
      d0 == requests[i].issued
      o1 == statusHandler(d0, requests[i].request)
      o2 == statusHandler(o1.db, requests[j].request)
  IN [db |-> o2.db, replies |-> [k \in {i, j} |-> IF k = i THEN o1.result ELSE o2.result]]

\* what the two requests left
Outcome == [db |-> db, replies |-> [k \in {1, 2} |-> requests[k].reply[1]]]

\* how many of the two replies are successes
Successes == Cardinality({k \in {1, 2} : requests[k].reply[1].success})

\* the lines of the one record of store d, and the direction they move stock
RecordLines(d) ==
  IF Len(d.purchase_orders) > 0 THEN LinesOfOrder(d, 1) ELSE LinesOfTransaction(d, 1)
RecordDirection(d) ==
  IF Len(d.purchase_orders) > 0 THEN 1 ELSE Direction(d.transactions[1].transaction_type)

\* stock is as in d0, or as in d0 with the record's lines applied once
AppliedAtMostOnce(d0, d) ==
  \/ Quantities(d) = Quantities(d0)
  \/ \A s \in 1..Len(d0.stock_items) :
       Quantities(d)[s]
         = Quantities(d0)[s] + RecordDirection(d0) * LineTotal(RecordLines(d0), s, 1)

\* the request asks for a status that ends the record's life: every status
\* but an order's approved, which an approved order can be given again
AsksFinalStatus(request) ==
  request.channel = "transaction:updateStatus" \/ request.status # "approved"

\* C22: requests do not interleave inside a handler.  When two status requests
\* issued together on the same pending order or transaction both have their
\* reply, the store and the replies are those of running one request after
\* the other in one of the two orders; the record's lines have been applied to
\* stock once or not at all; and of two requests for the same final status
\* (two receives of an order, two approvals of a transaction) at most one has
\* succeeded, and exactly one when the request succeeds on the store as it
\* was issued on.
C22_RequestsDoNotInterleave ==
  BothAnswered
  => LET first == requests[1].request
         second == requests[2].request
         d0 == requests[1].issued
     IN /\ Outcome \in {OneAfterTheOther(1), OneAfterTheOther(2)}
        /\ AppliedAtMostOnce(d0, db)
        /\ (first.status = second.status /\ AsksFinalStatus(first))
           => /\ Successes <= 1
              /\ ( \/ statusHandler(d0, first).result.success
                   \/ statusHandler(d0, second).result.success )
                 => Successes = 1

\* two receive requests with stock update by the admin on a pending order of
\* two lines: the first was served and succeeded, the second was refused, and
\* stock holds the lines once
C22_Witness ==
  /\ BothAnswered
  /\ \A k \in {1, 2} :
       requests[k].request = [channel |-> "supply:updateOrderStatus", userId |-> 1,
                              status |-> "received", updateStock |-> TRUE]
  /\ Len(LinesOfOrder(db, 1)) = 2
  /\ requests[1].reply[1] = Success("Purchase order marked as received successfully")
  /\ requests[2].reply[1] = Failure("Cannot change status of received purchase order")
  /\ \A s \in 1..Len(db.stock_items) :
       Quantities(db)[s]
         = Quantities(Stocked)[s] + LineTotal(LinesOfOrder(db, 1), s, 1)
  /\ \E s \in 1..Len(db.stock_items) : Quantities(db)[s] # Quantities(Stocked)[s]

\* the sequence numbers stored under a prefix, and the highest of them (0 when
\* there is none)
StoredSequences(numbers, prefix) ==
  {n \in SequenceNumbers : prefix \o padStart4(n) \in numbers}

HighestSequence(numbers, prefix) ==
  IF StoredSequences(numbers, prefix) = {} THEN 0
  ELSE CHOOSE n \in StoredSequences(numbers, prefix) :
         \A m \in StoredSequences(numbers, prefix) : m <= n

OrderNumbers(d) == {d.purchase_orders[k].order_number : k \in 1..Len(d.purchase_orders)}
ReferenceNumbers(d) == {d.transactions[k].reference_number : k \in 1..Len(d.transactions)}

\* C23: the generators return the highest stored sequence under the prefix
\* plus one, in whatever order the numbers were stored, and 0001 when no
\* number has the prefix.
C23_GeneratorsReturnHighestPlusOne ==
  /\ generateOrderNumber(db).orderNumber
       = orderPrefix \o padStart4(HighestSequence(OrderNumbers(db), orderPrefix) + 1)
  /\ \A type \in TransactionTypes :
       generateReferenceNumber(db, type).referenceNumber
         = typePrefix(type)
             \o padStart4(HighestSequence(ReferenceNumbers(db), typePrefix(type)) + 1)

\* C29: a generated order or reference number is never one already stored,
\* also when callers have stored numbers out of sequence order, so that a
\* record created under it is not refused for its number.
C29_GeneratedNumbersAreNew ==
  /\ generateOrderNumber(db).orderNumber \notin OrderNumbers(db)
  /\ \A type \in TransactionTypes :
       generateReferenceNumber(db, type).referenceNumber \notin ReferenceNumbers(db)

\* the passwords stored, user by user
StoredPasswords(d) == [k \in 1..Len(d.users) |-> d.users[k].password]

\* C24: auth:changePassword succeeds only when the current password supplied
\* hashes to the user's stored password; after a success an active user logs
\* in with the new password and no longer with the old one, when they differ;
\* after a failure every stored password is as it was.
C24_ChangePasswordChecksAndReplaces ==
  \A userId \in CallerIdInputs, currentPassword \in PasswordInputs,
     newPassword \in PasswordInputs \cup {"new"}, fault \in 0..2 :
    LET out == changePassword(db, userId, currentPassword, newPassword, fault)
    IN IF out.result.success
       THEN /\ userId \in 1..Len(db.users)
            /\ db.users[userId].password = hashPassword(currentPassword)
            /\ db.users[userId].is_active
               => /\ login(out.db, db.users[userId].username, newPassword, 0).result.success
                  /\ newPassword # currentPassword
                     => ~login(out.db, db.users[userId].username, currentPassword, 0)
                           .result.success
       ELSE StoredPasswords(out.db) = StoredPasswords(db)

\* stock is as the stocked store left it
StockUntouched == Quantities(db) = Quantities(Stocked)

\* stock is the stocked store's with the lines applied once, in direction dir
StockAppliedOnce(lines, dir) ==
  \A s \in 1..Len(db.stock_items) :
    Quantities(db)[s] = Quantities(Stocked)[s] + dir * LineTotal(lines, s, 1)

\* what the orders of O, from order o on, add to stock item s, each order's
\* lines counted once; and what the transactions of T move it by
RECURSIVE OrdersTotal(_, _, _, _)
OrdersTotal(d, O, s, o) ==
  IF o > Len(d.purchase_orders) THEN 0
  ELSE (IF o \in O THEN LineTotal(LinesOfOrder(d, o), s, 1) ELSE 0)
       + OrdersTotal(d, O, s, o + 1)

RECURSIVE TransactionsTotal(_, _, _, _)
TransactionsTotal(d, T, s, t) ==
  IF t > Len(d.transactions) THEN 0
  ELSE (IF t \in T
        THEN Direction(d.transactions[t].transaction_type)
               * LineTotal(LinesOfTransaction(d, t), s, 1)
        ELSE 0)
       + TransactionsTotal(d, T, s, t + 1)

ReceivedOrders(d) == {o \in 1..Len(d.purchase_orders) : OrderStatus(d, o) = "received"}
ApprovedTransactions(d) ==
  {t \in 1..Len(d.transactions) : TransactionStatus(d, t) = "approved"}

\* C25: the line items of an order or a transaction are applied to stock at
\* most once over its lifetime.  Whatever status calls have been made (with
\* either stock-update flag, failed and repeated calls among them), stock is
\* what the stocked store held plus, for some of the received orders and some
\* of the approved transactions, the record's lines applied exactly once; a
\* record that is neither received nor approved has moved nothing.
C25_LinesAppliedAtMostOnce ==
  \E O \in SUBSET ReceivedOrders(db), T \in SUBSET ApprovedTransactions(db) :
    \A s \in 1..Len(db.stock_items) :
      Quantities(db)[s]
        = Quantities(Stocked)[s] + OrdersTotal(db, O, s, 1) + TransactionsTotal(db, T, s, 1)

\* an order of one line was approved, then received with stock update, and a
\* second receive with stock update was refused: stock holds the line once
C25_Witness ==
  /\ result = Failure("Cannot change status of received purchase order")
  /\ Len(db.purchase_orders) = 1
  /\ db.purchase_orders[1].approved_by = 1
  /\ Len(LinesOfOrder(db, 1)) = 1
  /\ ~StockUntouched
  /\ StockAppliedOnce(LinesOfOrder(db, 1), 1)
  /\ ~updateOrderStatus(db, 1, 1, "received", TRUE, 0).result.success

\* the call left every quantity as it was and added no stock_item log row
StockLeftAlone(out) ==
  /\ Quantities(out.db) = Quantities(db)
  /\ \A i \in 1..Len(NewLogs(out.db)) : NewLogs(out.db)[i].entity_type # "stock_item"

\* C26: a status call that is not a stock-applying transition changes no stock
\* item's current_quantity and appends no stock_item log row: cancelling an
\* order or a transaction and approving an order, with either flag, and
\* approving a transaction or receiving an order with the stock-update flag
\* false.
C26_OtherTransitionsLeaveStockAlone ==
  \A userId \in UserIdInputs, fault \in FaultInputs :
    /\ \A o \in 1..Len(db.purchase_orders) :
         /\ \A updateStock \in BOOLEAN, status \in {"cancelled", "approved"} :
              StockLeftAlone(updateOrderStatus(db, userId, o, status, updateStock, fault))
         /\ StockLeftAlone(updateOrderStatus(db, userId, o, "received", FALSE, fault))
    /\ \A t \in 1..Len(db.transactions) :
         /\ \A updateStock \in BOOLEAN :
              StockLeftAlone(updateStatus(db, userId, t, "cancelled", updateStock, fault))
         /\ StockLeftAlone(updateStatus(db, userId, t, "approved", FALSE, fault))

\* an order of two lines was approved with the flag set and then received
\* without it: it is received, stock is what the stocked store held, and the
\* log has no stock_item row after those of the stocking
C26_Witness ==
  /\ result = Success("Purchase order marked as received successfully")
  /\ Len(db.purchase_orders) = 1
  /\ OrderStatus(db, 1) = "received"
  /\ db.purchase_orders[1].approved_by = 1
  /\ Len(LinesOfOrder(db, 1)) = 2
  /\ Quantities(db) = Quantities(Stocked)
  /\ \A i \in (Len(Stocked.activity_logs) + 1)..Len(db.activity_logs) :
       db.activity_logs[i].entity_type = "purchase_order"

\* the ids of the admins of store d
Admins(d) == {k \in 1..Len(d.users) : d.users[k].role = "admin"}

\* the call kept every user row, with its name and its role, and every row it
\* added is a secretary's
KeepsUsersAndRoles(d, out) ==
  /\ Len(out.db.users) >= Len(d.users)
  /\ \A k \in 1..Len(d.users) :
       /\ out.db.users[k].username = d.users[k].username
       /\ out.db.users[k].role = d.users[k].role
  /\ \A k \in (Len(d.users) + 1)..Len(out.db.users) : out.db.users[k].role = "secretary"

\* C27: no privilege escalation and no admin lockout through the handlers.
\* Once the store is bootstrapped the admins are exactly the two seeded
\* accounts, every admin is active and no two users have the same name; and
\* no call of an account handler, by any caller and with any failure of the
\* store, changes a user's role, creates an admin or deletes a user.
C27_AdminsAreTheSeededAdmins ==
  /\ db.users # << >>
     => /\ Admins(db) = 1..Len(adminUsers)
        /\ \A k \in Admins(db) :
             /\ db.users[k].username = adminUsers[k].username
             /\ db.users[k].is_active
        /\ \A j, k \in 1..Len(db.users) :
             db.users[j].username = db.users[k].username => j = k
  /\ \A fault \in 0..2, password \in PasswordInputs :
       /\ \A username \in UsernameInputs :
            KeepsUsersAndRoles(db, login(db, username, password, fault))
       /\ \A id \in CallerIdInputs :
            /\ KeepsUsersAndRoles(db, changePassword(db, id, password, "new", fault))
            /\ \A username \in UsernameInputs, is_active \in BOOLEAN :
                 KeepsUsersAndRoles(db,
                   createSecretary(db, id, [username |-> username, password |-> password,
                                            is_active |-> is_active], fault))
            /\ \A secretaryId \in 1..MaxUsers :
                 /\ KeepsUsersAndRoles(db,
                      resetSecretaryPassword(db, id, secretaryId, password, fault))
                 /\ \A isActive \in BOOLEAN :
                      KeepsUsersAndRoles(db,
                        updateSecretary(db, id, secretaryId, isActive, fault))

\* the admin has a deactivated secretary, and a call to deactivate the admin
\* account itself was refused: the admin is an active admin still
C27_Witness ==
  /\ result = Failure("Secretary account not found")
  /\ Len(db.users) = 3
  /\ db.users[3].role = "secretary"
  /\ ~db.users[3].is_active
  /\ db.users[1].role = "admin"
  /\ db.users[1].is_active
  /\ updateSecretary(db, 1, 1, FALSE, 0).result = Failure("Secretary account not found")

\* C28: after the store bootstrap a seeded admin can authenticate: auth:login
\* with a seed account's username and its seed password succeeds and returns
\* the role admin.
C28_SeededAdminCanLogIn ==
  \A i \in 1..Len(adminUsers) :
    LET out == login(getDatabase, adminUsers[i].username, adminUsers[i].password, 0)
    IN /\ out.result.success
       /\ out.result.user.role = "admin"

\* the changes of quantity a line can make, and what a stock_item log row of
\* a status call says after "from", for the records of store d
LineDeltas == LineQuantityInputs \cup {0 - q : q \in LineQuantityInputs}

OrderLogSource(d, o) == "received purchase order: " \o d.purchase_orders[o].order_number
TransactionLogSource(d, t) ==
  "approved " \o d.transactions[t].transaction_type \o " transaction: "
    \o d.transactions[t].reference_number

LogSources(d) ==
  {OrderLogSource(d, o) : o \in 1..Len(d.purchase_orders)}
    \cup {TransactionLogSource(d, t) : t \in 1..Len(d.transactions)}

\* the log row records the change n of a quantity on behalf of source
RecordsDelta(row, n, source) ==
  /\ row.entity_type = "stock_item"
  /\ row.action = "update"
  /\ row.details = "Updated quantity (" \o signed(n) \o ") from " \o source

\* the signed change the log row records for stock item s (0 when it is no
\* such row)
RecordedDelta(d, row, s) ==
  IF row.entity_id = s
     /\ \E n \in LineDeltas, source \in LogSources(d) : RecordsDelta(row, n, source)
  THEN CHOOSE n \in LineDeltas : \E source \in LogSources(d) : RecordsDelta(row, n, source)
  ELSE 0

\* the sum of the changes the log rows from row i on record for stock item s
RECURSIVE LoggedTotal(_, _, _)
LoggedTotal(d, s, i) ==
  IF i > Len(d.activity_logs) THEN 0
  ELSE RecordedDelta(d, d.activity_logs[i], s) + LoggedTotal(d, s, i + 1)

\* the orders received, and the transactions approved, with stock update: the
\* ones on whose behalf the log shows a change of quantity
HasLoggedChange(d, source) ==
  \E i \in 1..Len(d.activity_logs), n \in LineDeltas :
    RecordsDelta(d.activity_logs[i], n, source)

ReceivedWithUpdate(d) == {o \in ReceivedOrders(d) : HasLoggedChange(d, OrderLogSource(d, o))}
ApprovedWithUpdate(d) ==
  {t \in ApprovedTransactions(d) : HasLoggedChange(d, TransactionLogSource(d, t))}

\* C30: stock ledger conservation.  Without direct edits, each stock item's
\* current_quantity is its quantity at creation plus the lines of the orders
\* received with stock update, minus the lines of the issuances and plus the
\* lines of the returns and adjustments approved with stock update; and it is
\* the quantity at creation plus the signed changes that the item's
\* stock_item log rows record.  A successful receive or approval of a record
\* with lines is among those with stock update exactly when its flag was set.
C30_StockLedgerIsConserved ==
  /\ \A s \in 1..Len(db.stock_items) :
       /\ Quantities(db)[s]
            = Quantities(Stocked)[s]
                + OrdersTotal(db, ReceivedWithUpdate(db), s, 1)
                + TransactionsTotal(db, ApprovedWithUpdate(db), s, 1)
       /\ Quantities(db)[s] = Quantities(Stocked)[s] + LoggedTotal(db, s, 1)
  /\ \A updateStock \in BOOLEAN :
       /\ \A o \in 1..Len(db.purchase_orders) :
            LET out == updateOrderStatus(db, 1, o, "received", updateStock, 0)
            IN (out.result.success /\ LinesOfOrder(db, o) # << >>)
               => (o \in ReceivedWithUpdate(out.db) <=> updateStock)
       /\ \A t \in 1..Len(db.transactions) :
            LET out == updateStatus(db, 1, t, "approved", updateStock, 0)
            IN (out.result.success /\ LinesOfTransaction(db, t) # << >>)
               => (t \in ApprovedWithUpdate(out.db) <=> updateStock)

\* an issuance of two lines on the same item was approved with stock update:
\* the item is down by both lines, and the log records the two changes
C30_Witness ==
  /\ result = Success("Transaction approved successfully")
  /\ Len(db.transactions) = 1
  /\ db.transactions[1].transaction_type = "issuance"
  /\ ApprovedWithUpdate(db) = {1}
  /\ Len(LinesOfTransaction(db, 1)) = 2
  /\ \A i \in 1..2 : LinesOfTransaction(db, 1)[i] = [transaction_id |-> 1,
                                                     stock_item_id |-> 1, quantity |-> 1]
  /\ Quantities(db)[1] = Quantities(Stocked)[1] - 2
  /\ LoggedTotal(db, 1, 1) = 0 - 2

====
